---- MODULE Spec2Model ----
(***************************************************************************)
(* Model of the pizza-tracking / object-tracker vision service: the        *)
(* per-frame tracking engine (filter output -> cost matrix -> assignment   *)
(* -> rename -> trigger -> lost buffer -> publish), the lost-tracks        *)
(* buffer, the query surface and the "new object" trigger with cooldown.   *)
(*                                                                         *)
(* A label is the sequence of its "_"-separated components, so             *)
(* strings.Split(label, "_") is the label itself and strings.Join(p, "_")  *)
(* is p.  Costs are exact rationals [n, d] (d > 0) instead of float64.     *)
(***************************************************************************)
EXTENDS Integers, Sequences, FiniteSets, TLC

VARIABLES
    variant,              \* "rich" (package tracker) or "simple" (package object_tracker)
    phase,                \* "new" before newTracker, "running" after it, "closed" after Close
    minTrackPersistence,  \* myTracker.minTrackPersistence
    chosenLabels,         \* myTracker.chosenLabels: class -> minimum score
    minConfidence,        \* myTracker.minConfidence
    coolDown,             \* myTracker.coolDown, in clock units
    frequency,            \* myTracker.frequency, in Hz; 0 when not set
    camName,              \* myTracker.camName
    cam,                  \* myTracker.cam: the name of the camera, or Nil
    detector,             \* myTracker.detector: the name of the vision service, or Nil
    reconf,               \* a Reconfigure call on the built tracker: its position and config
    lastDetections,       \* myTracker.lastDetections
    currDetections,       \* myTracker.currDetections.detections
    currImg,              \* myTracker.currImg: 0 is the nil pointer, k the frame of loop pass k
    lostDetectionsBuffer, \* myTracker.lostDetectionsBuffer: [detections, size]
    classCounter,         \* myTracker.classCounter
    tracks,               \* myTracker.tracks
    allFreshObjects,      \* myTracker.allFreshObjects.objects
    timeStats,            \* len(myTracker.timeStats)
    newInstance,          \* myTracker.newInstance
    triggerGen,           \* number of trigger contexts made; myTracker.triggerContext is the triggerGen-th
    ctxCancelled,         \* the trigger contexts whose cancel function was called
    engineCancelled,      \* myTracker.cancelContext is done
    tasks,                \* cooldown goroutines: task id -> [pc, deadline, ctx]
    prodPc,               \* position of the producer inside myTracker.trigger / the run loop
    closePc,              \* position of a Close call
    now,                  \* wall clock
    trigTimes,            \* times at which trigger() was called, oldest first
    pass,                 \* locals of the most recent initialization pass / loop pass
    passes,               \* number of frames processing passes done (initialization included)
    bufArg,               \* argument of the most recent AppendDets call
    bufPrev,              \* lost buffer contents before the most recent AppendDets call
    mem,                  \* the engine with its pointers: heap of tracks, backing arrays, slices
    query                 \* a DoCommand call in flight: its position and locals

vars == <<variant, phase, minTrackPersistence, chosenLabels, minConfidence, coolDown,
          frequency, camName, cam, detector, reconf, lastDetections, currDetections,
          currImg, lostDetectionsBuffer, classCounter, tracks, allFreshObjects, timeStats,
          newInstance, triggerGen, ctxCancelled, engineCancelled, tasks, prodPc, closePc,
          now, trigTimes, pass, passes, bufArg, bufPrev, mem, query>>

-----------------------------------------------------------------------------
(* Bounds of the model *)

\* number of run-loop passes explored after the initialization pass
MaxTicks == 4

\* last clock value explored by the timed specification
MaxTime == 2

\* largest buffer capacity explored by the buffer specification
MaxCap == 3

\* number of trigger() calls after which the timed specification takes no further pass
MaxTriggers == 2

\* number of Reconfigure calls explored on a running tracker
MaxReconfigures == 1

-----------------------------------------------------------------------------
(* Program constants *)

DefaultMinTrackPersistence == 3

DefaultBufferSize == 30

MaxBufferSize == 256

\* DefaultMaxFrequency, in Hz
DefaultMaxFrequency == 10

\* the configured camera_name and detector_name
CamName == "cam"

DetectorName == "detector"

\* DefaultTriggerCoolDown, in seconds
DefaultTriggerCoolDown == 5

\* a dependency that is not set
Nil == "nil"

-----------------------------------------------------------------------------
(* Small helpers *)

Max2(a, b) == IF a >= b THEN a ELSE b

Min2(a, b) == IF a <= b THEN a ELSE b

Range(s) == {s[i] : i \in 1..Len(s)}

\* Go integer division truncates toward zero
GoDiv(a, b) == IF a >= 0 THEN a \div b ELSE -((-a) \div b)

RECURSIVE Concat(_)
Concat(ss) == IF ss = <<>> THEN <<>> ELSE Head(ss) \o Concat(Tail(ss))

\* strconv.Itoa on the indices the model reaches
Digits == <<"0", "1", "2", "3", "4", "5", "6", "7", "8", "9">>

Itoa(n) == IF n < 10 THEN Digits[n + 1] ELSE Digits[(n \div 10) + 1] \o Digits[(n % 10) + 1]

\* strings.ToLower on the class names of the model
ToLower(s) ==
    CASE s = "Cat" -> "cat"
      [] s = "Fish" -> "fish"
      [] OTHER -> s

-----------------------------------------------------------------------------
(* image.Rectangle *)

Rect(x0, y0, x1, y1) ==
    [x0 |-> Min2(x0, x1), y0 |-> Min2(y0, y1), x1 |-> Max2(x0, x1), y1 |-> Max2(y0, y1)]

ZR == [x0 |-> 0, y0 |-> 0, x1 |-> 0, y1 |-> 0]

Dx(r) == r.x1 - r.x0

Dy(r) == r.y1 - r.y0

Empty(r) == r.x0 >= r.x1 \/ r.y0 >= r.y1

Intersect(r, s) ==
    LET t == [x0 |-> Max2(r.x0, s.x0), y0 |-> Max2(r.y0, s.y0),
              x1 |-> Min2(r.x1, s.x1), y1 |-> Min2(r.y1, s.y1)]
    IN IF Empty(t) THEN ZR ELSE t

Union(r, s) ==
    IF Empty(r) THEN s
    ELSE IF Empty(s) THEN r
    ELSE [x0 |-> Min2(r.x0, s.x0), y0 |-> Min2(r.y0, s.y0),
          x1 |-> Max2(r.x1, s.x1), y1 |-> Max2(r.y1, s.y1)]

-----------------------------------------------------------------------------
(* Exact rationals standing for float64 costs *)

Rat(n, d) == [n |-> n, d |-> d]

RatZero == Rat(0, 1)

RatAdd(a, b) == Rat(a.n * b.d + b.n * a.d, a.d * b.d)

RatLeq(a, b) == a.n * b.d <= b.n * a.d

RatNeg(a) == Rat(-a.n, a.d)

RatIsZero(a) == a.n = 0

-----------------------------------------------------------------------------
(* Geometry: IOU and PredictNextFrame *)

\* IOU: area of the intersection over the area of r1.Union(r2), the bounding rectangle
IOU(r1, r2) ==
    LET intersection == Intersect(r1, r2)
        union == Union(r1, r2)
    IN IF Empty(intersection) THEN RatZero
       ELSE Rat(Dx(intersection) * Dy(intersection), Dx(union) * Dy(union))

PredictNextFrame(old, curr) ==
    LET oldCX == GoDiv(old.x0 + old.x1, 2)
        oldCY == GoDiv(old.y0 + old.y1, 2)
        currCX == GoDiv(curr.x0 + curr.x1, 2)
        currCY == GoDiv(curr.y0 + curr.y1, 2)
        newCx == currCX + (currCX - oldCX)
        newCy == currCY + (currCY - oldCY)
    IN Rect(newCx - GoDiv(Dx(curr), 2), newCy - GoDiv(Dy(curr), 2),
            newCx + GoDiv(Dx(curr), 2), newCy + GoDiv(Dy(curr), 2))

-----------------------------------------------------------------------------
(* Detections, labels and tracks *)

NoClassification == "none"

\* objdet.NewDetection
NewDetection(box, score, label) == [box |-> box, score |-> score, label |-> label]

\* newTrack: a detection with a fresh persistence counter
newTrack(det, lim) ==
    [Det |-> det, detClassification |-> NoClassification, persistenceLimit |-> lim,
     persistenceCount |-> 0, stable |-> FALSE]

newTracks(dets, lim) == [i \in 1..Len(dets) |-> newTrack(dets[i], lim)]

isStable(tr) == tr.stable

addPersistence(tr) ==
    IF tr.stable THEN tr
    ELSE LET c == tr.persistenceCount + 1
         IN [tr EXCEPT !.persistenceCount = c,
                       !.stable = IF c >= tr.persistenceLimit THEN TRUE ELSE tr.stable]

getStableDetections(trs) ==
    LET st == SelectSeq(trs, LAMBDA tr : tr.stable)
    IN [i \in 1..Len(st) |-> st[i].Det]

\* strings.Join(strings.Split(label, "_")[0:2], "_")
CountLabel(label) == SubSeq(label, 1, 2)

getTrackingLabel(tr) == CountLabel(tr.Det.label)

\* GetTimestamp: "YYYYMMDD_HHMMSS", two components, of the wall clock
GetTimestamp(clock) == <<"20240101", "0000" \o Itoa(clock)>>

ReplaceLabel(tr, label) ==
    [tr EXCEPT !.Det = NewDetection(tr.Det.box, tr.Det.score, label)]

\* ReplaceBoundingBox that stamps the detection anew
ReplaceBoundingBoxRestamped(tr, bb) ==
    [tr EXCEPT !.Det = NewDetection(bb, tr.Det.score,
                                    CountLabel(tr.Det.label) \o GetTimestamp(9))]

ReplaceBoundingBox(tr, bb) ==
    [tr EXCEPT !.Det = NewDetection(bb, tr.Det.score, tr.Det.label)]

\* addClassificationToLabel: the trailing classification component is rewritten
addClassificationToLabel(tr, cl) ==
    LET l == tr.Det.label
        base == IF Len(l) > 4 THEN SubSeq(l, 1, 4) ELSE l
    IN [tr EXCEPT !.Det = NewDetection(tr.Det.box, tr.Det.score, Append(base, cl)),
                  !.detClassification = cl]

HasKey(m, k) == k \in DOMAIN m

MapPut(m, k, v) == [x \in (DOMAIN m) \cup {k} |-> IF x = k THEN v ELSE m[x]]

MapDelete(m, k) == [x \in (DOMAIN m) \ {k} |-> m[x]]

EmptyMap == [x \in {} |-> 0]

-----------------------------------------------------------------------------
(* Cost matrix and assignment *)

\* BuildMatchingMatrix that compares every row by its own box
BuildMatchingMatrixOwnBox(trks, oldDetections, newDetections) ==
    [i \in 1..Len(oldDetections) |->
        [j \in 1..Len(newDetections) |->
            RatNeg(IOU(oldDetections[i].Det.box, newDetections[j].Det.box))]]

\* Row i, column j (both from 1) hold -IOU(reference box of oldDetections[i], box of
\* newDetections[j]); the reference box is predicted from the last two entries of the
\* track when it has at least two, and is the detection's own box otherwise.
BuildMatchingMatrix(trks, oldDetections, newDetections) ==
    [i \in 1..Len(oldDetections) |->
        LET oldD == oldDetections[i]
            label == CountLabel(oldD.Det.label)
            track == IF HasKey(trks, label) THEN trks[label] ELSE <<>>
            ref == IF Len(track) >= 2
                   THEN PredictNextFrame(track[Len(track) - 1].Det.box, track[Len(track)].Det.box)
                   ELSE oldD.Det.box
        IN [j \in 1..Len(newDetections) |-> RatNeg(IOU(ref, newDetections[j].Det.box))]]

Injections(A, B) == {f \in [A -> B] : \A a1, a2 \in A : a1 # a2 => f[a1] # f[a2]}

\* The assignments of the h x w matrix padded with zeros to a square: every row of the
\* narrower side is assigned; a row assigned to a padding column is reported as -1.
\* Columns are numbered from 0 as in the code.
Assignments(h, w) ==
    IF w <= h
    THEN {[i \in 1..h |-> IF \E j \in 1..w : f[j] = i
                          THEN (CHOOSE j \in 1..w : f[j] = i) - 1
                          ELSE -1] : f \in Injections(1..w, 1..h)}
    ELSE {[i \in 1..h |-> g[i] - 1] : g \in Injections(1..h, 1..w)}

RECURSIVE AssignmentCostFrom(_, _, _)
AssignmentCostFrom(mtx, m, i) ==
    IF i > Len(m) THEN RatZero
    ELSE LET rest == AssignmentCostFrom(mtx, m, i + 1)
         IN IF m[i] = -1 THEN rest ELSE RatAdd(mtx[i][m[i] + 1], rest)

AssignmentCost(mtx, m) == AssignmentCostFrom(mtx, m, 1)

\* hg.NewHungarianAlgorithm(mtx).Execute(): the minimum-cost assignments; which one of
\* several optimal assignments the solver returns is left open.  The solver is an
\* external library; a matrix without rows is taken to yield the empty assignment.
HungarianExecute(mtx, w) ==
    LET all == Assignments(Len(mtx), w)
    IN {m \in all : \A m2 \in all : RatLeq(AssignmentCost(mtx, m), AssignmentCost(mtx, m2))}

-----------------------------------------------------------------------------
(* Lost-tracks buffer (tracksBuffer / detectionsBuffer) *)

newTracksBuffer(size) == [detections |-> <<>>, size |-> size]

\* the inner loop of AppendDets on one slot: drop the first entry with this count label
RECURSIVE RemoveFirst(_, _)
RemoveFirst(dets, countLabel) ==
    IF dets = <<>> THEN <<>>
    ELSE IF CountLabel(Head(dets).Det.label) = countLabel THEN Tail(dets)
    ELSE <<Head(dets)>> \o RemoveFirst(Tail(dets), countLabel)

\* the outer loops of AppendDets: for every new detection, every slot
RECURSIVE RemoveOldDets(_, _)
RemoveOldDets(slots, newDets) ==
    IF newDets = <<>> THEN slots
    ELSE LET countLabel == CountLabel(Head(newDets).Det.label)
         IN RemoveOldDets([i \in 1..Len(slots) |-> RemoveFirst(slots[i], countLabel)],
                          Tail(newDets))

\* AppendDets without the eviction of the oldest slot
AppendDetsNoEvict(b, newDets) ==
    [b EXCEPT !.detections = Append(RemoveOldDets(b.detections, newDets), newDets)]

\* AppendDets that drops the oldest slot one append early
AppendDetsEvictEarly(b, newDets) ==
    LET kept == IF Len(b.detections) >= b.size - 1 /\ b.detections # <<>>
                THEN Tail(b.detections) ELSE b.detections
    IN [b EXCEPT !.detections = Append(RemoveOldDets(kept, newDets), newDets)]

AppendDets(b, newDets) ==
    LET kept == IF Len(b.detections) = b.size THEN Tail(b.detections) ELSE b.detections
    IN [b EXCEPT !.detections = Append(RemoveOldDets(kept, newDets), newDets)]

-----------------------------------------------------------------------------
(* Renaming, package tracker (label.go) *)

\* RenameFirstTime that numbers a new track by the tracks of its class still in the map
RenameFirstTimeReuse(es, det, clock) ==
    LET baseLabel == ToLower(det.Det.label[1])
        n == Cardinality({id \in DOMAIN es.tracks : id[1] = baseLabel})
        countLabel == <<baseLabel, Itoa(n)>>
        out == ReplaceLabel(det, countLabel \o GetTimestamp(clock))
    IN [classCounter |-> MapPut(es.classCounter, baseLabel, n),
        tracks |-> MapPut(es.tracks, countLabel, <<out>>),
        out |-> out]

\* RenameFirstTime on the engine maps es = [classCounter, tracks]; .out is the result
RenameFirstTime(es, det, clock) ==
    LET baseLabel == ToLower(det.Det.label[1])
        n == IF HasKey(es.classCounter, baseLabel) THEN es.classCounter[baseLabel] + 1 ELSE 0
        countLabel == <<baseLabel, Itoa(n)>>
        label == IF det.detClassification # NoClassification
                 THEN countLabel \o GetTimestamp(clock) \o <<det.detClassification>>
                 ELSE countLabel \o GetTimestamp(clock)
        out == ReplaceLabel(det, label)
    IN [classCounter |-> MapPut(es.classCounter, baseLabel, n),
        tracks |-> MapPut(es.tracks, countLabel, <<out>>),
        out |-> out]

\* the end of UpdateTrack: the new track nt is appended to its track when there is one;
\* .newTrack and .newlyStable are the results
UpdateTrackWith(trks, nt, wasStable) ==
    [tracks |-> IF HasKey(trks, getTrackingLabel(nt))
                THEN [trks EXCEPT ![getTrackingLabel(nt)] = Append(@, nt)]
                ELSE trks,
     newTrack |-> nt,
     newlyStable |-> (wasStable # isStable(nt))]

\* the classification step of UpdateTrack
Reclassified(nt, cl) ==
    IF cl # NoClassification THEN addClassificationToLabel(nt, cl) ELSE nt

\* UpdateTrack that keeps the bounding box of the old track
UpdateTrackKeepBox(trks, nextTrack, oldMatchedTrack) ==
    UpdateTrackWith(trks, addPersistence(oldMatchedTrack), isStable(oldMatchedTrack))

\* UpdateTrack on the tracks map
UpdateTrack(trks, nextTrack, oldMatchedTrack) ==
    UpdateTrackWith(trks,
                    Reclassified(addPersistence(ReplaceBoundingBox(oldMatchedTrack,
                                                                   nextTrack.Det.box)),
                                 nextTrack.detClassification),
                    isStable(oldMatchedTrack))

\* the "old says partial, new says full" test of RenameFromMatches
PartialToFull(old, new) ==
    /\ old.detClassification # NoClassification
    /\ new.detClassification # NoClassification
    /\ isStable(old)
    /\ old.detClassification = "partial"
    /\ new.detClassification = "full"

\* whether RenameFromMatches takes the match of row oldIdx (from 1)
MatchTaken(matches, mtx, oldDets, newDets, oldIdx) ==
    /\ matches[oldIdx] # -1
    /\ ~RatIsZero(mtx[oldIdx][matches[oldIdx] + 1])
    /\ matches[oldIdx] >= 0 /\ matches[oldIdx] < Len(newDets) /\ oldIdx <= Len(oldDets)
    /\ ~PartialToFull(oldDets[oldIdx], newDets[matches[oldIdx] + 1])

\* the state of RenameFromMatches before its first loop; acc = [classCounter, tracks,
\* updated, newlyStable, fresh, newDets, notUsed]
RenameStart(es, newDets) ==
    [classCounter |-> es.classCounter, tracks |-> es.tracks, updated |-> <<>>,
     newlyStable |-> <<>>, fresh |-> <<>>, newDets |-> <<>>,
     notUsed |-> {j - 1 : j \in 1..Len(newDets)}]

\* a taken match that leaves its column in notUsed
MatchedStepKeepsColumn(acc, u, newIdx) ==
    [acc EXCEPT !.tracks = u.tracks,
                !.updated = IF u.newlyStable THEN @ ELSE Append(@, u.newTrack),
                !.newlyStable = IF u.newlyStable THEN Append(@, u.newTrack) ELSE @]

\* one taken match: u is the result of UpdateTrack
MatchedStep(acc, u, newIdx) ==
    [acc EXCEPT !.tracks = u.tracks,
                !.updated = IF u.newlyStable THEN @ ELSE Append(@, u.newTrack),
                !.newlyStable = IF u.newlyStable THEN Append(@, u.newTrack) ELSE @,
                !.notUsed = @ \ {newIdx}]

\* first loop of RenameFromMatches, rows oldIdx..Len(matches)
RECURSIVE RenameMatched(_, _, _, _, _, _)
RenameMatched(acc, matches, mtx, oldDets, newDets, oldIdx) ==
    IF oldIdx > Len(matches) THEN acc
    ELSE IF ~MatchTaken(matches, mtx, oldDets, newDets, oldIdx)
    THEN RenameMatched(acc, matches, mtx, oldDets, newDets, oldIdx + 1)
    ELSE RenameMatched(MatchedStep(acc,
                                   UpdateTrack(acc.tracks, newDets[matches[oldIdx] + 1],
                                               oldDets[oldIdx]),
                                   matches[oldIdx]),
                       matches, mtx, oldDets, newDets, oldIdx + 1)

\* one fresh detection: r is the result of RenameFirstTime
FreshStep(acc, r) ==
    [acc EXCEPT !.classCounter = r.classCounter, !.tracks = r.tracks,
                !.fresh = Append(@, r.out)]

\* second loop of RenameFromMatches over the not used columns, in the order the map
\* iteration yields them
RECURSIVE RenameFresh(_, _, _, _)
RenameFresh(acc, newDets, order, clock) ==
    IF order = <<>> THEN acc
    ELSE RenameFresh(FreshStep(acc, RenameFirstTime(acc, newDets[Head(order) + 1], clock)),
                     newDets, Tail(order), clock)

\* the columns left in notUsed after the first loop
NotUsed(es, matches, mtx, oldDets, newDets) ==
    RenameMatched(RenameStart(es, newDets), matches, mtx, oldDets, newDets, 1).notUsed

\* the orders in which a Go map iteration may yield the keys of S
Orders(S) ==
    {o \in [1..Cardinality(S) -> S] : \A i, j \in 1..Cardinality(S) : i # j => o[i] # o[j]}

\* RenameFromMatches on es = [classCounter, tracks]; order is the iteration order of
\* notUsed; .updated, .newlyStable and .fresh are the three results
RenameFromMatches(es, matches, mtx, oldDets, newDets, order, clock) ==
    RenameFresh(RenameMatched(RenameStart(es, newDets), matches, mtx, oldDets, newDets, 1),
                newDets, order, clock)

-----------------------------------------------------------------------------
(* Renaming, package object_tracker (the variant without persistence).  A detection *)
(* is held as [Det |-> detection] so that both variants share the buffer code.      *)

RenameFirstTimeOT(es, det, clock) ==
    LET baseLabel == ToLower(det.Det.label[1])
        n == IF HasKey(es.classCounter, baseLabel) THEN es.classCounter[baseLabel] + 1 ELSE 0
        countLabel == <<baseLabel, Itoa(n)>>
        label == countLabel \o GetTimestamp(clock)
        out == [Det |-> NewDetection(det.Det.box, det.Det.score, label)]
    IN [classCounter |-> MapPut(es.classCounter, baseLabel, n),
        tracks |-> MapPut(es.tracks, countLabel, <<out>>),
        out |-> out]

UpdateTrackOT(trks, det) ==
    IF HasKey(trks, CountLabel(det.Det.label))
    THEN [trks EXCEPT ![CountLabel(det.Det.label)] = Append(@, det)]
    ELSE trks

MatchTakenOT(matches, mtx, oldDets, newDets, oldIdx) ==
    /\ matches[oldIdx] # -1
    /\ ~RatIsZero(mtx[oldIdx][matches[oldIdx] + 1])
    /\ matches[oldIdx] >= 0 /\ matches[oldIdx] < Len(newDets) /\ oldIdx <= Len(oldDets)

\* the state of RenameFromMatches before its first loop: newDets is renamed in place
RenameStartOT(es, newDets) ==
    [classCounter |-> es.classCounter, tracks |-> es.tracks, updated |-> <<>>,
     newlyStable |-> <<>>, fresh |-> <<>>, newDets |-> newDets,
     notUsed |-> {j - 1 : j \in 1..Len(newDets)}]

\* one taken match: renamed is the new detection under the old label
MatchedStepOT(acc, renamed, newIdx) ==
    [acc EXCEPT !.tracks = UpdateTrackOT(@, renamed),
                !.newDets[newIdx + 1] = renamed,
                !.notUsed = @ \ {newIdx}]

\* first loop
RECURSIVE RenameMatchedOT(_, _, _, _, _)
RenameMatchedOT(acc, matches, mtx, oldDets, oldIdx) ==
    IF oldIdx > Len(matches) THEN acc
    ELSE IF ~MatchTakenOT(matches, mtx, oldDets, acc.newDets, oldIdx)
    THEN RenameMatchedOT(acc, matches, mtx, oldDets, oldIdx + 1)
    ELSE RenameMatchedOT(
             MatchedStepOT(acc,
                           [Det |-> NewDetection(acc.newDets[matches[oldIdx] + 1].Det.box,
                                                 acc.newDets[matches[oldIdx] + 1].Det.score,
                                                 oldDets[oldIdx].Det.label)],
                           matches[oldIdx]),
             matches, mtx, oldDets, oldIdx + 1)

\* one fresh detection: r is the result of RenameFirstTime
FreshStepOT(acc, r, idx) ==
    [acc EXCEPT !.classCounter = r.classCounter, !.tracks = r.tracks,
                !.newDets[idx + 1] = r.out, !.fresh = Append(@, r.out)]

\* second loop
RECURSIVE RenameFreshOT(_, _, _)
RenameFreshOT(acc, order, clock) ==
    IF order = <<>> THEN acc
    ELSE RenameFreshOT(FreshStepOT(acc,
                                   RenameFirstTimeOT(acc, acc.newDets[Head(order) + 1], clock),
                                   Head(order)),
                       Tail(order), clock)

NotUsedOT(es, matches, mtx, oldDets, newDets) ==
    RenameMatchedOT(RenameStartOT(es, newDets), matches, mtx, oldDets, 1).notUsed

\* RenameFromMatches of object_tracker: .newDets is every new detection, renamed, and
\* .fresh the fresh ones
RenameFromMatchesOT(es, matches, mtx, oldDets, newDets, order, clock) ==
    RenameFreshOT(RenameMatchedOT(RenameStartOT(es, newDets), matches, mtx, oldDets, 1),
                  order, clock)

-----------------------------------------------------------------------------
(* Detection filter (filter.go); scores and thresholds are in hundredths *)

\* NewAdvancedFilter with an inclusive per-class test
NewAdvancedFilterInclusive(labels, detections) ==
    IF Cardinality(DOMAIN labels) < 1 THEN detections
    ELSE SelectSeq(detections,
                   LAMBDA d : LET baseLabel == ToLower(d.label[1])
                              IN HasKey(labels, baseLabel) /\ d.score >= labels[baseLabel])

\* NewAdvancedFilter: an empty map passes everything, otherwise the lower-cased first
\* label component must be a key and the score strictly above its value
NewAdvancedFilter(labels, detections) ==
    IF Cardinality(DOMAIN labels) < 1 THEN detections
    ELSE SelectSeq(detections,
                   LAMBDA d : LET baseLabel == ToLower(d.label[1])
                              IN HasKey(labels, baseLabel) /\ d.score > labels[baseLabel])

\* objdet.NewScoreFilter(conf): keeps the detections with score >= conf
NewScoreFilter(conf, detections) == SelectSeq(detections, LAMBDA d : d.score >= conf)

FilterDetections(labels, dets, conf) == NewScoreFilter(conf, NewAdvancedFilter(labels, dets))

-----------------------------------------------------------------------------
(* Log of stabilized objects *)

IsNumber(s) == \E i \in 1..Len(Digits) : Digits[i] = s

\* strconv.Atoi on one-digit strings
Atoi(s) == (CHOOSE i \in 1..Len(Digits) : Digits[i] = s) - 1

\* newTrackedObjectFromLabel: the zero trackedObject when the index does not parse
newTrackedObjectFromLabel(label) ==
    IF ~IsNumber(label[2])
    THEN [FullLabel |-> <<>>, Label |-> "", Id |-> 0, Time |-> <<>>]
    ELSE [FullLabel |-> label, Label |-> label[1], Id |-> Atoi(label[2]),
          Time |-> SubSeq(label, 3, Len(label))]

-----------------------------------------------------------------------------
(* Inputs *)

CatBox == Rect(0, 0, 2, 2)

FishBox == Rect(4, 4, 6, 6)

FishBoxMoved == Rect(5, 5, 7, 7)

Cat == NewDetection(CatBox, 100, <<"cat">>)

Fish == NewDetection(FishBox, 100, <<"fish">>)

FishMoved == NewDetection(FishBoxMoved, 90, <<"fish">>)

\* the frames (detector outputs) the producer is fed
Frames == {<<>>, <<Cat>>, <<Fish>>, <<Cat, Fish>>, <<Fish, FishMoved>>}

\* the frames of the timed specification
TimedFrames == {<<Cat>>, <<Cat, Fish>>}

\* configured min_track_persistence values; 0 stands for the default
PersistenceConfigs == {0, 1, 2}

\* configured buffer_size values
BufferConfigs == {2}

\* DefaultMinConfidence, 0.2, in hundredths
DefaultMinConfidence == 20

-----------------------------------------------------------------------------
(* Frame processing: the body of the initialization pass and of a loop pass *)

\* the renaming of the first frame in newTracker; acc = [classCounter, tracks, out]
RECURSIVE RenameAll(_, _, _, _)
RenameAll(acc, dets, clock, v) ==
    IF dets = <<>> THEN acc
    ELSE LET r == IF v = "rich" THEN RenameFirstTime(acc, Head(dets), clock)
                  ELSE RenameFirstTimeOT(acc, Head(dets), clock)
         IN RenameAll([classCounter |-> r.classCounter, tracks |-> r.tracks,
                       out |-> Append(acc.out, r.out)], Tail(dets), clock, v)

\* the new tracks / detections of a frame
NewTracksOf(v, fd, lim) ==
    IF v = "rich" THEN newTracks(fd, lim) ELSE [i \in 1..Len(fd) |-> [Det |-> fd[i]]]

FilteredNew(frame, v, labels, conf, lim) ==
    NewTracksOf(v, FilterDetections(labels, frame, conf), lim)

\* allDetections of run: lastDetections followed by the buffer slots, oldest first
AllDetections(last, b) == last \o Concat(b.detections)

\* the lost detections loop of run over lastDetections; acc = [lost, tracks, classCounter]
\* (the class counters are carried along unchanged)
RECURSIVE LostLoop(_, _, _, _, _)
LostLoop(acc, last, matches, idx, v) ==
    IF idx > Len(last) THEN acc
    ELSE IF matches[idx] # -1 THEN LostLoop(acc, last, matches, idx + 1, v)
    ELSE IF v = "simple" \/ isStable(last[idx])
    THEN LostLoop([acc EXCEPT !.lost = Append(@, last[idx])], last, matches, idx + 1, v)
    ELSE LostLoop([acc EXCEPT !.tracks = MapDelete(@, getTrackingLabel(last[idx]))],
                  last, matches, idx + 1, v)

\* the lost detections loop of newTracker over matches: nothing is deleted from tracks
RECURSIVE LostLoopInit(_, _, _, _, _)
LostLoopInit(lost, old, matches, idx, v) ==
    IF idx > Len(matches) THEN lost
    ELSE IF matches[idx] = -1 /\ (v = "simple" \/ isStable(old[idx]))
    THEN LostLoopInit(Append(lost, old[idx]), old, matches, idx + 1, v)
    ELSE LostLoopInit(lost, old, matches, idx + 1, v)

\* RenameFromMatches of either package
Renamed(v, es, matches, mtx, oldDets, newDets, order, clock) ==
    IF v = "rich"
    THEN RenameFromMatches(es, matches, mtx, oldDets, newDets, order, clock)
    ELSE RenameFromMatchesOT(es, matches, mtx, oldDets, newDets, order, clock)

FreshOrders(v, es, matches, mtx, oldDets, newDets) ==
    Orders(IF v = "rich" THEN NotUsed(es, matches, mtx, oldDets, newDets)
           ELSE NotUsedOT(es, matches, mtx, oldDets, newDets))

\* whether newTracker calls trigger(): newly stable tracks (tracker), any renamed
\* detection (object_tracker)
InitTriggers(v, r) == IF v = "rich" THEN Len(r.newlyStable) > 0 ELSE Len(r.newDets) > 0

\* whether run calls trigger(): newly stable tracks (tracker), fresh detections
\* (object_tracker)
RunTriggers(v, r) == IF v = "rich" THEN Len(r.newlyStable) > 0 ELSE Len(r.fresh) > 0

\* what newTracker stores in lastDetections: fresh tracks are not kept by tracker
InitPublished(v, r) == IF v = "rich" THEN r.updated \o r.newlyStable ELSE r.newDets

\* what run stores in lastDetections
RunPublished(v, r) ==
    IF v = "rich" THEN r.updated \o r.newlyStable \o r.fresh ELSE r.newDets

\* what run appends to allFreshObjects
RunLogged(v, r) ==
    LET src == IF v = "rich" THEN r.newlyStable ELSE r.fresh
    IN [i \in 1..Len(src) |-> newTrackedObjectFromLabel(src[i].Det.label)]

\* no Reconfigure call is in flight
NoReconfigure == [pc |-> "idle", cfg |-> <<>>, n |-> 0, err |-> FALSE]

\* no DoCommand call is in flight
NoQuery == [pc |-> "idle", benchmark |-> FALSE, logs |-> FALSE, n |-> 0, ranged |-> 0,
            out |-> <<>>]

NoPass ==
    [kind |-> "none", pool |-> <<>>, nLast |-> 0, new |-> <<>>, mtx |-> <<>>,
     matches |-> <<>>, lost |-> <<>>, updated |-> <<>>, newlyStable |-> <<>>,
     fresh |-> <<>>, published |-> <<>>, logged |-> <<>>, triggers |-> FALSE,
     gen0 |-> 0, counter0 |-> EmptyMap, tracks0 |-> EmptyMap, fault |-> "none",
     frame |-> <<>>,
     labels |-> EmptyMap, filtered |-> <<>>, stats |-> 0, classified |-> FALSE]

-----------------------------------------------------------------------------
(* Initial state: the myTracker literal of newTracker after Reconfigure and defaults *)

\* The fields as newTracker leaves them: its call of Reconfigure has stored the
\* configured values, and newTracker has then replaced min_track_persistence 0 by the
\* default.  Only newTracker does that: the action Reconfigure, on the live tracker,
\* stores 0 as it is, and the specifications with that action reach the limit 0.
InitWith(variants, persistence, buffers, cooldowns) ==
    /\ variant \in variants
    /\ \E cfg \in persistence :
          minTrackPersistence = IF cfg = 0 THEN DefaultMinTrackPersistence ELSE cfg
    /\ \E cfg \in buffers :
          lostDetectionsBuffer =
              newTracksBuffer(IF cfg > 0 THEN cfg ELSE DefaultBufferSize)
    /\ coolDown \in cooldowns
    /\ frequency = DefaultMaxFrequency
    /\ camName = CamName
    /\ cam = CamName
    /\ detector = DetectorName
    /\ reconf = NoReconfigure
    /\ chosenLabels = EmptyMap
    /\ minConfidence = DefaultMinConfidence
    /\ phase = "new"
    /\ lastDetections = <<>>
    /\ currDetections = <<>>
    /\ currImg = 0
    /\ classCounter = EmptyMap
    /\ tracks = EmptyMap
    /\ allFreshObjects = <<>>
    /\ timeStats = 0
    /\ newInstance = FALSE
    /\ triggerGen = 0
    /\ ctxCancelled = {}
    /\ engineCancelled = FALSE
    /\ tasks = EmptyMap
    /\ prodPc = "idle"
    /\ closePc = "none"
    /\ now = 0
    /\ trigTimes = <<>>
    /\ pass = NoPass
    /\ passes = 0
    /\ bufArg = <<>>
    /\ bufPrev = <<>>
    /\ query = NoQuery
    /\ mem = [pc |-> "new", heap |-> <<>>, arrays |-> <<>>, last |-> [arr |-> 0, len |-> 0],
              curr |-> [arr |-> 0, len |-> 0], buf |-> <<>>, tracks |-> EmptyMap,
              classCounter |-> EmptyMap, passes |-> 0, local |-> <<>>, published |-> <<>>]

cfgVars ==
    <<variant, minTrackPersistence, chosenLabels, minConfidence, coolDown, frequency, camName,
      cam, detector, reconf>>

triggerVars == <<newInstance, triggerGen, ctxCancelled, tasks>>

publishedVars == <<lastDetections, currDetections, currImg, allFreshObjects, timeStats>>

-----------------------------------------------------------------------------
(* The producer *)

\* newTracker up to its call of RenameFromMatches: two frames are taken, the first is
\* renamed from scratch, the second is matched against it
NewTrackerStart(frame0, frame1) ==
    /\ phase = "new"
    /\ \E filteredNew \in {FilteredNew(frame1, variant, chosenLabels, minConfidence,
                                       minTrackPersistence)} :
       \E ro \in {RenameAll([classCounter |-> classCounter, tracks |-> tracks, out |-> <<>>],
                            FilteredNew(frame0, variant, chosenLabels, minConfidence,
                                        minTrackPersistence),
                            now, variant)} :
       \E matchMtx \in {BuildMatchingMatrix(ro.tracks, ro.out, filteredNew)} :
       \E matches \in HungarianExecute(matchMtx, Len(filteredNew)) :
       \E lostDetections \in {LostLoopInit(<<>>, ro.out, matches, 1, variant)} :
       \E order \in FreshOrders(variant, ro, matches, matchMtx, ro.out, filteredNew) :
       \E r \in {Renamed(variant, ro, matches, matchMtx, ro.out, filteredNew, order, now)} :
          /\ bufPrev' = lostDetectionsBuffer.detections
          /\ bufArg' = lostDetections
          /\ lostDetectionsBuffer' = AppendDets(lostDetectionsBuffer, lostDetections)
          /\ classCounter' = r.classCounter
          /\ tracks' = r.tracks
          /\ pass' = [kind |-> "init", pool |-> ro.out, nLast |-> Len(ro.out),
                      new |-> filteredNew, mtx |-> matchMtx, matches |-> matches,
                      lost |-> lostDetections, updated |-> r.updated,
                      newlyStable |-> r.newlyStable, fresh |-> r.fresh,
                      published |-> InitPublished(variant, r), logged |-> <<>>,
                      triggers |-> InitTriggers(variant, r),
                      gen0 |-> triggerGen, counter0 |-> classCounter,
                      tracks0 |-> tracks, fault |-> "none"]
          /\ prodPc' = IF InitTriggers(variant, r) THEN "trigger" ELSE "lists"
    /\ phase' = "init"
    /\ passes' = passes
    /\ UNCHANGED <<cfgVars, query, mem, triggerVars, publishedVars, engineCancelled, closePc, now,
                   trigTimes>>

\* run passes the select at the top of its loop and calls stream.Next
TickBegin ==
    /\ phase = "running"
    /\ prodPc = "idle"
    /\ ~engineCancelled
    /\ passes < MaxTicks
    /\ prodPc' = "next"
    /\ UNCHANGED <<cfgVars, query, mem, triggerVars, publishedVars, phase, lostDetectionsBuffer,
                   classCounter, tracks, engineCancelled, closePc, now, trigTimes, pass,
                   passes, bufArg, bufPrev>>

\* stream.Next returns a frame and run calls t.detector.Detections: the call panics on
\* a nil detector, the panic is caught by ManagedGo and run is started again
FrameArrives ==
    /\ prodPc = "next"
    /\ IF detector = Nil
       THEN /\ prodPc' = "idle"
            /\ pass' = [pass EXCEPT !.fault = "panic"]
       ELSE /\ prodPc' = "detect"
            /\ pass' = pass
    /\ UNCHANGED <<cfgVars, query, mem, triggerVars, publishedVars, phase, lostDetectionsBuffer,
                   classCounter, tracks, engineCancelled, closePc, now, trigTimes, passes,
                   bufArg, bufPrev>>

\* the detector returns the detections of the frame, and the first argument of
\* FilterDetections, t.chosenLabels, is read (tracker.go 216-221)
TickStart(frame) ==
    /\ prodPc = "detect"
    /\ pass' = [NoPass EXCEPT !.kind = "new", !.frame = frame, !.labels = chosenLabels]
    /\ passes' = passes + 1
    /\ prodPc' = "confidence"
    /\ UNCHANGED <<cfgVars, query, mem, triggerVars, publishedVars, phase, lostDetectionsBuffer,
                   classCounter, tracks, engineCancelled, closePc, now, trigTimes, bufArg,
                   bufPrev>>

\* t.minConfidence is read and FilterDetections is called (tracker.go 221)
TickFilter ==
    /\ prodPc = "confidence"
    /\ pass' = [pass EXCEPT !.filtered = FilterDetections(pass.labels, pass.frame,
                                                          minConfidence)]
    /\ prodPc' = "persistence"
    /\ UNCHANGED <<cfgVars, query, mem, triggerVars, publishedVars, phase, lostDetectionsBuffer,
                   classCounter, tracks, engineCancelled, closePc, now, trigTimes, passes,
                   bufArg, bufPrev>>

\* newTracks(filteredDets, t.minTrackPersistence) (tracker.go 223)
TickNewTracks ==
    /\ prodPc = "persistence"
    /\ pass' = [NoPass EXCEPT !.kind = "new",
                              !.new = NewTracksOf(variant, pass.filtered,
                                                  minTrackPersistence)]
    /\ prodPc' = "pool"
    /\ UNCHANGED <<cfgVars, query, mem, triggerVars, publishedVars, phase, lostDetectionsBuffer,
                   classCounter, tracks, engineCancelled, closePc, now, trigTimes, passes,
                   bufArg, bufPrev>>

\* the lost detections loop of run (tracker.go 236-249) on the new tracks, the pool, the
\* cost matrix and the assignment of the pass
MatchFrom(filteredNew, allDetections, matchMtx, matches, fault) ==
    \E ll \in {LostLoop([lost |-> <<>>, tracks |-> tracks, classCounter |-> classCounter],
                        lastDetections, matches, 1, variant)} :
       /\ tracks' = ll.tracks
       /\ pass' = [NoPass EXCEPT !.kind = "matched", !.pool = allDetections,
                                 !.nLast = Len(lastDetections), !.new = filteredNew,
                                 !.mtx = matchMtx, !.matches = matches, !.lost = ll.lost,
                                 !.gen0 = triggerGen, !.counter0 = classCounter,
                                 !.tracks0 = tracks, !.fault = fault]
       /\ prodPc' = "append"

\* the pool is read from lastDetections and the lost buffer, the cost matrix is built and
\* solved, and the lost detections loop is run (tracker.go 226-249)
TickMatch ==
    /\ prodPc = "pool"
    /\ \E allDetections \in {AllDetections(lastDetections, lostDetectionsBuffer)} :
       \E matchMtx \in {BuildMatchingMatrix(tracks, allDetections, pass.new)} :
       \E matches \in HungarianExecute(matchMtx, Len(pass.new)) :
          MatchFrom(pass.new, allDetections, matchMtx, matches, "none")
    /\ UNCHANGED <<cfgVars, query, mem, triggerVars, publishedVars, phase, lostDetectionsBuffer,
                   classCounter, engineCancelled, closePc, now, trigTimes, passes, bufArg,
                   bufPrev>>

\* t.lostDetectionsBuffer.AppendDets(lostDetections) on the buffer the tracker holds now,
\* and RenameFromMatches (tracker.go 250-253)
TickRename ==
    /\ prodPc = "append"
    /\ \E es \in {[lost |-> pass.lost, tracks |-> tracks, classCounter |-> classCounter]} :
       \E order \in FreshOrders(variant, es, pass.matches, pass.mtx, pass.pool, pass.new) :
       \E r \in {Renamed(variant, es, pass.matches, pass.mtx, pass.pool, pass.new, order,
                         now)} :
          /\ bufPrev' = lostDetectionsBuffer.detections
          /\ bufArg' = pass.lost
          /\ lostDetectionsBuffer' = AppendDets(lostDetectionsBuffer, pass.lost)
          /\ classCounter' = r.classCounter
          /\ tracks' = r.tracks
          /\ pass' = [pass EXCEPT !.kind = "run", !.updated = r.updated,
                                  !.newlyStable = r.newlyStable, !.fresh = r.fresh,
                                  !.published = RunPublished(variant, r),
                                  !.logged = RunLogged(variant, r),
                                  !.triggers = RunTriggers(variant, r)]
          /\ prodPc' = IF RunTriggers(variant, r) THEN "trigger" ELSE "lists"
    /\ UNCHANGED <<cfgVars, query, mem, triggerVars, publishedVars, phase, engineCancelled,
                   closePc, now, trigTimes, passes>>

\* trigger(): the running cooldown is cancelled and a new trigger context is made
TriggerCancel ==
    /\ prodPc = "trigger"
    /\ ctxCancelled' = IF triggerGen # 0 THEN ctxCancelled \cup {triggerGen} ELSE ctxCancelled
    /\ triggerGen' = triggerGen + 1
    /\ trigTimes' = Append(trigTimes, now)
    /\ prodPc' = "store"
    /\ UNCHANGED <<cfgVars, query, mem, publishedVars, newInstance, tasks, phase, lostDetectionsBuffer,
                   classCounter, tracks, engineCancelled, closePc, now, pass,
                   passes, bufArg, bufPrev>>

\* trigger(): newInstance.Store(true)
TriggerStore ==
    /\ prodPc = "store"
    /\ newInstance' = TRUE
    /\ prodPc' = "spawn"
    /\ UNCHANGED <<cfgVars, query, mem, publishedVars, triggerGen, ctxCancelled, tasks, phase,
                   lostDetectionsBuffer, classCounter, tracks, engineCancelled, closePc, now,
                   trigTimes, pass, passes, bufArg, bufPrev>>

\* trigger(): the cooldown goroutine is started
TriggerSpawn ==
    /\ prodPc = "spawn"
    /\ tasks' = MapPut(tasks, triggerGen, [pc |-> "start", deadline |-> 0, ctx |-> 0])
    /\ prodPc' = IF pass.kind = "init" THEN "lists" ELSE "log"
    /\ UNCHANGED <<cfgVars, query, mem, publishedVars, newInstance, triggerGen, ctxCancelled, phase,
                   lostDetectionsBuffer, classCounter, tracks, engineCancelled, closePc, now,
                   trigTimes, pass, passes, bufArg, bufPrev>>

\* the objects of the newly stable tracks are appended to the log, under
\* allFreshObjects.mutex (tracker.go 259-267)
PublishLog ==
    /\ prodPc = "log"
    /\ allFreshObjects' = allFreshObjects \o pass.logged
    /\ prodPc' = "lists"
    /\ UNCHANGED <<cfgVars, query, mem, triggerVars, lastDetections, currDetections, currImg,
                   timeStats, phase, lostDetectionsBuffer, classCounter, tracks,
                   engineCancelled, closePc, now, trigTimes, pass, passes, bufArg, bufPrev>>

\* the lists are stored: lastDetections and, under its lock, currDetections.  This ends
\* newTracker, which starts run and takes dt clock units (tracker.go 180-186); in a pass
\* of run the frame is stored next (271-274)
PublishLists(dt) ==
    /\ prodPc = "lists"
    /\ lastDetections' = pass.published
    /\ currDetections' = pass.published
    /\ IF pass.kind = "init"
       THEN /\ phase' = "running"
            /\ prodPc' = "idle"
            /\ now' = now + dt
       ELSE /\ phase' = phase
            /\ prodPc' = "image"
            /\ now' = now
    /\ UNCHANGED <<cfgVars, query, mem, triggerVars, allFreshObjects, currImg, timeStats,
                   lostDetectionsBuffer, classCounter, tracks, engineCancelled, closePc,
                   trigTimes, pass, passes, bufArg, bufPrev>>

\* t.currImg.Store(&img) (tracker.go 275)
PublishImage ==
    /\ prodPc = "image"
    /\ currImg' = passes
    /\ prodPc' = "stats"
    /\ UNCHANGED <<cfgVars, query, mem, triggerVars, lastDetections, currDetections,
                   allFreshObjects, timeStats, phase, lostDetectionsBuffer, classCounter,
                   tracks, engineCancelled, closePc, now, trigTimes, pass, passes, bufArg,
                   bufPrev>>

\* the pass is timed and the append of t.timeStats = append(t.timeStats, took) reads
\* the list (tracker.go 277-278)
TimeStatsRead ==
    /\ prodPc = "stats"
    /\ pass' = [pass EXCEPT !.stats = timeStats]
    /\ prodPc' = "timed"
    /\ UNCHANGED <<cfgVars, query, mem, triggerVars, publishedVars, phase, lostDetectionsBuffer,
                   classCounter, tracks, engineCancelled, closePc, now, trigTimes, passes,
                   bufArg, bufPrev>>

\* the list read, one entry longer, is stored in t.timeStats (tracker.go 278)
PublishStats ==
    /\ prodPc = "timed"
    /\ timeStats' = pass.stats + 1
    /\ pass' = [pass EXCEPT !.stats = 0]
    /\ prodPc' = "period"
    /\ UNCHANGED <<cfgVars, query, mem, triggerVars, lastDetections, currDetections, currImg,
                   allFreshObjects, phase, lostDetectionsBuffer, classCounter, tracks,
                   engineCancelled, closePc, now, trigTimes, passes, bufArg, bufPrev>>

\* run waits for the rest of the period 1/t.frequency or for the cancellation; the pass
\* has taken dt clock units (tracker.go 279-286).  With t.frequency = 0 the period is
\* +Inf: its conversion to a Duration is implementation-dependent and gives a wait of
\* centuries on the gc targets, so run stays in the wait until the context is cancelled
WaitForPeriod(dt) ==
    /\ prodPc = "period"
    /\ prodPc' = IF frequency = 0 THEN "wait" ELSE "idle"
    /\ now' = now + dt
    /\ UNCHANGED <<cfgVars, query, mem, triggerVars, publishedVars, phase, lostDetectionsBuffer,
                   classCounter, tracks, engineCancelled, closePc, trigTimes, pass, passes,
                   bufArg, bufPrev>>

-----------------------------------------------------------------------------
(* The producer alone, package tracker: one clock unit per pass.  This is the     *)
(* tracker as newTracker builds it, without a classifier and left alone by the    *)
(* framework; the classify step is in SpecClassifier, Reconfigure on the live      *)
(* tracker in SpecReconfigure and SpecDetections, the queries in SpecCapture.      *)

Init == InitWith({"rich"}, PersistenceConfigs, BufferConfigs, {2})

Next ==
    \/ \E frame0, frame1 \in Frames : NewTrackerStart(frame0, frame1)
    \/ TickBegin
    \/ FrameArrives
    \/ \E frame \in Frames : TickStart(frame)
    \/ TickFilter
    \/ TickNewTracks
    \/ TickMatch
    \/ TickRename
    \/ TriggerCancel
    \/ TriggerStore
    \/ TriggerSpawn
    \/ PublishLog
    \/ PublishLists(1)
    \/ PublishImage
    \/ TimeStatsRead
    \/ PublishStats
    \/ WaitForPeriod(1)

Spec == Init /\ [][Next]_vars

-----------------------------------------------------------------------------
(* The producer alone, both packages *)

InitVariants == InitWith({"rich", "simple"}, {1}, BufferConfigs, {2})

\* the producer alone with every buffer capacity up to MaxCap
InitLost == InitWith({"rich"}, {1}, 1..MaxCap, {2})

SpecLost == InitLost /\ [][Next]_vars

SpecVariants == InitVariants /\ [][Next]_vars

-----------------------------------------------------------------------------
(* The producer alone, package tracker, with a camera and a detector that may fail *)

\* how a pass of run may fail before it has detections: stream.Next returns an error,
\* stream.Next returns a nil image, detector.Detections returns an error
Faults == {"fetch", "nil", "detect"}

\* a failed pass that stores the frame it could not use
TickSkipStoresFrame(fault) ==
    /\ prodPc = IF fault = "detect" THEN "detect" ELSE "next"
    /\ pass' = [pass EXCEPT !.fault = fault]
    /\ currImg' = IF fault = "detect" THEN passes + 1 ELSE currImg
    /\ prodPc' = "idle"
    /\ UNCHANGED <<cfgVars, query, mem, triggerVars, lastDetections, currDetections, allFreshObjects,
                   timeStats, phase, lostDetectionsBuffer, classCounter, tracks,
                   engineCancelled, closePc, now, trigTimes, passes, bufArg, bufPrev>>

\* a pass of run that fails: stream.Next returns an error or a nil image, or
\* detector.Detections returns an error; the error is logged and the loop continues
\* (tracker.go 207-219).  pass.fault records the failure of the last iteration
TickSkip(fault) ==
    /\ prodPc = IF fault = "detect" THEN "detect" ELSE "next"
    /\ pass' = [pass EXCEPT !.fault = fault]
    /\ prodPc' = "idle"
    /\ UNCHANGED <<cfgVars, query, mem, triggerVars, publishedVars, phase, lostDetectionsBuffer,
                   classCounter, tracks, engineCancelled, closePc, now, trigTimes,
                   passes, bufArg, bufPrev>>

\* what Execute may hand back after NewHungarianAlgorithm reported an error that run
\* discarded: any assignment of the padded matrix, optimal or not, or no assignment at
\* all (the solver is an external library)
AnyMatches(h, w) == Assignments(h, w) \cup {[i \in 1..h |-> -1]}

\* a pass of run in which NewHungarianAlgorithm reports an error.  run discards the error
\* (HA, _ :=) and calls HA.Execute(): either the call panics on the missing solver, the
\* panic is caught by ManagedGo and run is started again with the engine as it was, or
\* Execute returns some vector and the pass goes on with it.
TickSolverFails ==
    /\ prodPc = "pool"
    /\ \E allDetections \in {AllDetections(lastDetections, lostDetectionsBuffer)} :
       \E matchMtx \in {BuildMatchingMatrix(tracks, allDetections, pass.new)} :
          \/ /\ pass' = [pass EXCEPT !.kind = "aborted", !.pool = allDetections,
                                      !.nLast = Len(lastDetections), !.mtx = matchMtx,
                                      !.fault = "solver"]
             /\ prodPc' = "idle"
             /\ tracks' = tracks
          \/ \E matches \in AnyMatches(Len(allDetections), Len(pass.new)) :
                MatchFrom(pass.new, allDetections, matchMtx, matches, "solver")
    /\ UNCHANGED <<cfgVars, query, mem, triggerVars, publishedVars, phase, lostDetectionsBuffer,
                   classCounter, engineCancelled, closePc, now, trigTimes, passes, bufArg,
                   bufPrev>>

NextSolver ==
    \/ \E frame0, frame1 \in TimedFrames : NewTrackerStart(frame0, frame1)
    \/ TickBegin
    \/ FrameArrives
    \/ \E frame \in TimedFrames : TickStart(frame)
    \/ TickFilter
    \/ TickNewTracks
    \/ TickMatch
    \/ TickRename
    \/ TickSolverFails
    \/ TriggerCancel
    \/ TriggerStore
    \/ TriggerSpawn
    \/ PublishLog
    \/ PublishLists(1)
    \/ PublishImage
    \/ TimeStatsRead
    \/ PublishStats
    \/ WaitForPeriod(1)

NextFaulty ==
    \/ \E frame0, frame1 \in Frames : NewTrackerStart(frame0, frame1)
    \/ TickBegin
    \/ FrameArrives
    \/ \E frame \in Frames : TickStart(frame)
    \/ TickFilter
    \/ TickNewTracks
    \/ TickMatch
    \/ TickRename
    \/ \E fault \in Faults : TickSkip(fault)
    \/ TriggerCancel
    \/ TriggerStore
    \/ TriggerSpawn
    \/ PublishLog
    \/ PublishLists(1)
    \/ PublishImage
    \/ TimeStatsRead
    \/ PublishStats
    \/ WaitForPeriod(1)

InitFaulty == InitWith({"rich"}, {1}, BufferConfigs, {2})

SpecFaulty == InitFaulty /\ [][NextFaulty]_vars

SpecSolver == InitFaulty /\ [][NextSolver]_vars

-----------------------------------------------------------------------------
(* The cooldown goroutines of trigger(), Close, and the wall clock.  Goroutines are  *)
(* scheduled freely: any of them may be delayed while the others and the clock move. *)

engineVars == <<lostDetectionsBuffer, classCounter, tracks, pass, passes, bufArg, bufPrev>>

\* the trigger context g is done: it was cancelled, or its parent cancelContext was
CtxDone(g) == engineCancelled \/ g \in ctxCancelled

\* the goroutine starts: time.After(coolDown) is armed and the select is entered on
\* t.triggerContext.Done(); the field is read without synchronization, so the context
\* seen is that of this trigger or of any later one made by then
CoolDownStart(id) ==
    /\ id \in DOMAIN tasks
    /\ tasks[id].pc = "start"
    /\ \E ctx \in id..triggerGen :
          tasks' = [tasks EXCEPT ![id] = [pc |-> "select", deadline |-> now + coolDown,
                                          ctx |-> ctx]]
    /\ UNCHANGED <<cfgVars, query, mem, publishedVars, engineVars, newInstance, triggerGen, ctxCancelled,
                   phase, engineCancelled, prodPc, closePc, now, trigTimes>>

\* the select takes the timer case (any ready case may be taken)
CoolDownTimer(id) ==
    /\ id \in DOMAIN tasks
    /\ tasks[id].pc = "select"
    /\ now >= tasks[id].deadline
    /\ tasks' = [tasks EXCEPT ![id].pc = "store"]
    /\ UNCHANGED <<cfgVars, query, mem, publishedVars, engineVars, newInstance, triggerGen, ctxCancelled,
                   phase, engineCancelled, prodPc, closePc, now, trigTimes>>

\* a cooldown goroutine whose context is cancelled by a later trigger only
CoolDownCancelledByTrigger(id) ==
    /\ id \in DOMAIN tasks
    /\ tasks[id].pc = "select"
    /\ tasks[id].ctx \in ctxCancelled
    /\ tasks' = [tasks EXCEPT ![id].pc = "done"]
    /\ UNCHANGED <<cfgVars, query, mem, publishedVars, engineVars, newInstance, triggerGen, ctxCancelled,
                   phase, engineCancelled, prodPc, closePc, now, trigTimes>>

\* the select takes the context case: the goroutine returns
CoolDownCancelled(id) ==
    /\ id \in DOMAIN tasks
    /\ tasks[id].pc = "select"
    /\ CtxDone(tasks[id].ctx)
    /\ tasks' = [tasks EXCEPT ![id].pc = "done"]
    /\ UNCHANGED <<cfgVars, query, mem, publishedVars, engineVars, newInstance, triggerGen, ctxCancelled,
                   phase, engineCancelled, prodPc, closePc, now, trigTimes>>

\* newInstance.Store(false) of the timer case
CoolDownStore(id) ==
    /\ id \in DOMAIN tasks
    /\ tasks[id].pc = "store"
    /\ newInstance' = FALSE
    /\ tasks' = [tasks EXCEPT ![id].pc = "done"]
    /\ UNCHANGED <<cfgVars, query, mem, publishedVars, engineVars, triggerGen, ctxCancelled,
                   phase, engineCancelled, prodPc, closePc, now, trigTimes>>

Advance ==
    /\ now < MaxTime
    /\ now' = now + 1
    /\ UNCHANGED <<cfgVars, query, mem, publishedVars, engineVars, triggerVars, phase, engineCancelled,
                   prodPc, closePc, trigTimes>>

\* Close: t.cancelFunc()
CloseCancel ==
    /\ phase = "running"
    /\ closePc = "none"
    /\ engineCancelled' = TRUE
    /\ closePc' = "wait"
    /\ UNCHANGED <<cfgVars, query, mem, publishedVars, engineVars, triggerVars, phase, prodPc, now,
                   trigTimes>>

\* run returns at the top of its loop (or out of its wait) once cancelContext is done
ProducerExit ==
    /\ phase = "running"
    /\ prodPc \in {"idle", "wait"}
    /\ engineCancelled
    /\ prodPc' = "exited"
    /\ UNCHANGED <<cfgVars, query, mem, publishedVars, engineVars, triggerVars, phase, engineCancelled,
                   closePc, now, trigTimes>>

\* Close that returns without waiting for the background workers
CloseReturnEarly ==
    /\ closePc = "wait"
    /\ closePc' = "done"
    /\ phase' = "closed"
    /\ UNCHANGED <<cfgVars, query, mem, publishedVars, engineVars, triggerVars, engineCancelled, prodPc,
                   now, trigTimes>>

\* Close: activeBackgroundWorkers.Wait() returns
CloseReturn ==
    /\ closePc = "wait"
    /\ prodPc = "exited"
    /\ \A id \in DOMAIN tasks : tasks[id].pc = "done"
    /\ closePc' = "done"
    /\ phase' = "closed"
    /\ UNCHANGED <<cfgVars, query, mem, publishedVars, engineVars, triggerVars, engineCancelled, prodPc,
                   now, trigTimes>>

\* a further Close after Close has returned: cancelFunc() changes nothing, and Wait()
\* returns when no background worker is left
CloseAgain ==
    /\ closePc \in {"done", "again"}
    /\ prodPc = "exited"
    /\ \A id \in DOMAIN tasks : tasks[id].pc = "done"
    /\ engineCancelled' = TRUE
    /\ closePc' = "again"
    /\ UNCHANGED <<cfgVars, query, mem, publishedVars, engineVars, triggerVars, phase, prodPc, now,
                   trigTimes>>

InitTrigger == InitWith({"rich"}, {1}, BufferConfigs, {2})

NextTrigger ==
    \/ \E frame0, frame1 \in TimedFrames : NewTrackerStart(frame0, frame1)
    \/ triggerGen < MaxTriggers /\ TickBegin
    \/ FrameArrives
    \/ \E fault \in Faults : TickSkip(fault)
    \/ \E frame \in TimedFrames : TickStart(frame)
    \/ TickFilter
    \/ TickNewTracks
    \/ TickMatch
    \/ TickRename
    \/ TriggerCancel
    \/ TriggerStore
    \/ TriggerSpawn
    \/ PublishLog
    \/ PublishLists(0)
    \/ PublishImage
    \/ TimeStatsRead
    \/ PublishStats
    \/ WaitForPeriod(0)
    \/ \E id \in 1..MaxTriggers : CoolDownStart(id)
    \/ \E id \in 1..MaxTriggers : CoolDownTimer(id)
    \/ \E id \in 1..MaxTriggers : CoolDownCancelled(id)
    \/ \E id \in 1..MaxTriggers : CoolDownStore(id)
    \/ Advance
    \/ CloseCancel
    \/ ProducerExit
    \/ CloseReturn
    \/ CloseAgain

SpecTrigger == InitTrigger /\ [][NextTrigger]_vars

\* the positions of run, and those at which it waits for nothing but the return of a
\* call of the camera or of the detector
ProducerPositions ==
    {"idle", "next", "detect", "confidence", "persistence", "pool", "append", "trigger",
     "store", "spawn", "log", "lists", "image", "stats", "timed", "period", "wait",
     "exited"}

WithinPass == ProducerPositions \ {"idle", "wait", "exited"}

\* a step of run, one goroutine, once a pass is under way or the context is cancelled:
\* the position of run changes.  At each of these positions run has a step to take (the
\* calls of the camera and of the detector return).
ProducerStep ==
    /\ \/ prodPc \in WithinPass
       \/ prodPc \in {"idle", "wait"} /\ engineCancelled /\ phase = "running"
    /\ prodPc' \in ProducerPositions \ {prodPc}

\* the steps of the cooldown goroutine id that wait for nothing but its context
CoolDownStep(id) ==
    \/ CoolDownStart(id)
    \/ CoolDownCancelled(id)
    \/ CoolDownStore(id)

\* The goroutines are scheduled: a step of run, of a cooldown goroutine or of Close that
\* stays possible is taken.  Nothing is assumed of the clock.
FairTrigger ==
    /\ WF_prodPc(ProducerStep)
    /\ WF_vars(CloseReturn)
    /\ \A id \in 1..MaxTriggers : WF_vars(CoolDownStep(id))

SpecTriggerFair == SpecTrigger /\ FairTrigger

-----------------------------------------------------------------------------
(* The query surface.  The two classification queries read the state once: each is *)
(* the set of the results a call may return in the current state.                  *)

\* the configured camera_name
NewObjectDetectedLabel == "new-object-detected"

QueryError(e) == [err |-> e, img |-> 0, dets |-> <<>>, cls |-> <<>>]

QueryCancelled(ctxDone) ==
    (IF engineCancelled THEN {QueryError("engine context done")} ELSE {})
        \cup (IF ctxDone THEN {QueryError("caller context done")} ELSE {})

\* classification.NewClassification; scores are in hundredths
NewClassification(score, label) == [score |-> score, label |-> label]

\* the classification list that does not look at newInstance
AlwaysNewInstance == <<NewClassification(100, NewObjectDetectedLabel)>>

NewInstanceClassifications ==
    IF newInstance THEN <<NewClassification(100, NewObjectDetectedLabel)>> ELSE <<>>

\* Classifications: the image, n and the context are not looked at
Classifications(n, ctxDone) ==
    {[err |-> "", img |-> 0, dets |-> <<>>, cls |-> NewInstanceClassifications]}

ClassificationsFromCamera(cameraName, n, ctxDone) ==
    IF cameraName # camName THEN {QueryError("camera name")}
    ELSE {[err |-> "", img |-> 0, dets |-> <<>>, cls |-> NewInstanceClassifications]}

-----------------------------------------------------------------------------
(* Detections, DetectionsFromCamera and CaptureAllFromCamera, step by step, next to *)
(* the running producer: the contexts, t.camName, t.currImg, t.currDetections and   *)
(* t.newInstance are read one after the other, and run, trigger and Close may take  *)
(* steps in between.  A select with several ready cases takes any of them.          *)

\* the bound on the loop passes of the engine next to which the call is made
MaxCaptureTicks == 2

OtherCamName == "other"

AllCaptureOptions ==
    [ReturnImage : BOOLEAN, ReturnDetections : BOOLEAN, ReturnClassifications : BOOLEAN]

\* the call in flight: its position, its arguments, whether cancelContext was done when
\* it was entered, and the result it has gathered
CaptureCall(pc, cameraName, opt, ctxDone, res) ==
    [method |-> "CaptureAllFromCamera", pc |-> pc, name |-> cameraName, opt |-> opt,
     ctxDone |-> ctxDone, selected |-> TRUE, cancelled |-> engineCancelled, res |-> res]

\* a call of Detections or DetectionsFromCamera in flight: selected tells whether its
\* select has been taken, cancelled whether cancelContext was done at that select
DetectionsCall(method, pc, cameraName, ctxDone, selected, res) ==
    [method |-> method, pc |-> pc, name |-> cameraName, ctxDone |-> ctxDone,
     selected |-> selected, cancelled |-> selected /\ engineCancelled, res |-> res]

\* Detections is entered and its select is taken: a cancellation case when one is ready,
\* the default case, which goes on to the locked read, otherwise
Detections(ctxDone) ==
    /\ phase \in {"running", "closed"}
    /\ query.pc = "idle"
    /\ \/ \E r \in QueryCancelled(ctxDone) :
             query' = DetectionsCall("Detections", "returned", camName, ctxDone, TRUE, r)
       \/ /\ QueryCancelled(ctxDone) = {}
          /\ query' = DetectionsCall("Detections", "read", camName, ctxDone, TRUE,
                                     QueryError(""))
    /\ UNCHANGED <<cfgVars, mem, triggerVars, publishedVars, engineVars, phase,
                   engineCancelled, prodPc, closePc, now, trigTimes>>

\* DetectionsFromCamera is entered: cameraName is compared with t.camName
DetectionsFromCamera(cameraName, ctxDone) ==
    /\ phase \in {"running", "closed"}
    /\ query.pc = "idle"
    /\ query' = IF cameraName # camName
                THEN DetectionsCall("DetectionsFromCamera", "returned", cameraName, ctxDone,
                                    FALSE, QueryError("camera name"))
                ELSE DetectionsCall("DetectionsFromCamera", "select", cameraName, ctxDone,
                                    FALSE, QueryError(""))
    /\ UNCHANGED <<cfgVars, mem, triggerVars, publishedVars, engineVars, phase,
                   engineCancelled, prodPc, closePc, now, trigTimes>>

\* the select of DetectionsFromCamera
DetectionsSelect ==
    /\ query.pc = "select"
    /\ \/ \E r \in QueryCancelled(query.ctxDone) :
             query' = [query EXCEPT !.pc = "returned", !.selected = TRUE,
                                    !.cancelled = engineCancelled, !.res = r]
       \/ /\ QueryCancelled(query.ctxDone) = {}
          /\ query' = [query EXCEPT !.pc = "read", !.selected = TRUE,
                                    !.cancelled = engineCancelled]
    /\ UNCHANGED <<cfgVars, mem, triggerVars, publishedVars, engineVars, phase,
                   engineCancelled, prodPc, closePc, now, trigTimes>>

\* the default case of either method: getStableDetections(t.currDetections.detections)
\* under the read lock, whatever has happened to the contexts since the select
DetectionsRead ==
    /\ query.pc = "read"
    /\ query' = [query EXCEPT !.pc = "returned",
                              !.res.dets = getStableDetections(currDetections)]
    /\ UNCHANGED <<cfgVars, mem, triggerVars, publishedVars, engineVars, phase,
                   engineCancelled, prodPc, closePc, now, trigTimes>>

CapturePositions ==
    {"name", "image", "detections", "classifications", "returned", "panicked"}

\* where the call goes on once the image part is over, and once the detections part is
AfterDetections(opt) == IF opt.ReturnClassifications THEN "classifications" ELSE "returned"

AfterImage(opt) == IF opt.ReturnDetections THEN "detections" ELSE AfterDetections(opt)

\* CaptureAllFromCamera that checks the camera name whatever is requested
CaptureAllCheckedName(cameraName, opt, ctxDone) ==
    /\ phase \in {"running", "closed"}
    /\ query.pc = "idle"
    /\ \/ \E r \in QueryCancelled(ctxDone) :
             query' = CaptureCall("returned", cameraName, opt, ctxDone, r)
       \/ /\ QueryCancelled(ctxDone) = {}
          /\ query' = IF cameraName # camName
                      THEN CaptureCall("returned", cameraName, opt, ctxDone,
                                       QueryError("camera name"))
                      ELSE CaptureCall(IF opt.ReturnImage THEN "name" ELSE AfterImage(opt),
                                       cameraName, opt, ctxDone, QueryError(""))
    /\ UNCHANGED <<cfgVars, mem, triggerVars, publishedVars, engineVars, phase,
                   engineCancelled, prodPc, closePc, now, trigTimes>>

\* the call is entered and the select is taken: a cancellation case when one is ready
\* (any of them), the default case otherwise
CaptureAllFromCamera(cameraName, opt, ctxDone) ==
    /\ phase \in {"running", "closed"}
    /\ query.pc = "idle"
    /\ \/ \E r \in QueryCancelled(ctxDone) :
             query' = CaptureCall("returned", cameraName, opt, ctxDone, r)
       \/ /\ QueryCancelled(ctxDone) = {}
          /\ query' = CaptureCall(IF opt.ReturnImage THEN "name" ELSE AfterImage(opt),
                                  cameraName, opt, ctxDone, QueryError(""))
    /\ UNCHANGED <<cfgVars, mem, triggerVars, publishedVars, engineVars, phase,
                   engineCancelled, prodPc, closePc, now, trigTimes>>

\* the image is requested: cameraName is compared with t.camName
CaptureName ==
    /\ query.pc = "name"
    /\ query' = IF query.name # camName
                THEN [query EXCEPT !.pc = "returned", !.res = QueryError("camera name")]
                ELSE [query EXCEPT !.pc = "image"]
    /\ UNCHANGED <<cfgVars, mem, triggerVars, publishedVars, engineVars, phase,
                   engineCancelled, prodPc, closePc, now, trigTimes>>

\* img = *t.currImg.Load(): the dereference panics while no pass has stored a frame
CaptureImage ==
    /\ query.pc = "image"
    /\ query' = IF currImg = 0
                THEN [query EXCEPT !.pc = "panicked",
                                   !.res = QueryError("nil pointer dereference")]
                ELSE [query EXCEPT !.pc = AfterImage(query.opt), !.res.img = currImg]
    /\ UNCHANGED <<cfgVars, mem, triggerVars, publishedVars, engineVars, phase,
                   engineCancelled, prodPc, closePc, now, trigTimes>>

\* getStableDetections(t.currDetections.detections) under the read lock
CaptureDetections ==
    /\ query.pc = "detections"
    /\ query' = [query EXCEPT !.pc = AfterDetections(query.opt),
                              !.res.dets = getStableDetections(currDetections)]
    /\ UNCHANGED <<cfgVars, mem, triggerVars, publishedVars, engineVars, phase,
                   engineCancelled, prodPc, closePc, now, trigTimes>>

\* t.newInstance.Load() and the classification list made from it
CaptureClassifications ==
    /\ query.pc = "classifications"
    /\ query' = [query EXCEPT !.pc = "returned", !.res.cls = NewInstanceClassifications]
    /\ UNCHANGED <<cfgVars, mem, triggerVars, publishedVars, engineVars, phase,
                   engineCancelled, prodPc, closePc, now, trigTimes>>

\* the call is over: it returned its result, or it panicked
QueryReturn ==
    /\ query.pc \in {"returned", "panicked"}
    /\ query' = NoQuery
    /\ UNCHANGED <<cfgVars, mem, triggerVars, publishedVars, engineVars, phase,
                   engineCancelled, prodPc, closePc, now, trigTimes>>

InitCapture == InitWith({"rich"}, {1}, BufferConfigs, {2})

NextCapture ==
    \/ \E frame0, frame1 \in TimedFrames : NewTrackerStart(frame0, frame1)
    \/ passes < MaxCaptureTicks /\ TickBegin
    \/ FrameArrives
    \/ \E frame \in TimedFrames : TickStart(frame)
    \/ TickFilter
    \/ TickNewTracks
    \/ TickMatch
    \/ TickRename
    \/ TriggerCancel
    \/ TriggerStore
    \/ TriggerSpawn
    \/ PublishLog
    \/ PublishLists(1)
    \/ PublishImage
    \/ TimeStatsRead
    \/ PublishStats
    \/ WaitForPeriod(1)
    \/ CloseCancel
    \/ ProducerExit
    \/ \E cameraName \in {CamName, OtherCamName} : \E opt \in AllCaptureOptions :
       \E ctxDone \in BOOLEAN : CaptureAllFromCamera(cameraName, opt, ctxDone)
    \/ \E ctxDone \in BOOLEAN : Detections(ctxDone)
    \/ \E cameraName \in {CamName, OtherCamName} :
       \E ctxDone \in BOOLEAN : DetectionsFromCamera(cameraName, ctxDone)
    \/ DetectionsSelect
    \/ DetectionsRead
    \/ CaptureName
    \/ CaptureImage
    \/ CaptureDetections
    \/ CaptureClassifications
    \/ QueryReturn

SpecCapture == InitCapture /\ [][NextCapture]_vars

-----------------------------------------------------------------------------
(* The lost-tracks buffer alone: any capacity, any sequence of AppendDets calls *)

\* a stable track as the engine hands it to the buffer
LostTrack(label, box) ==
    [Det |-> NewDetection(box, 100, label), detClassification |-> NoClassification,
     persistenceLimit |-> 1, persistenceCount |-> 1, stable |-> TRUE]

FishLost == LostTrack(<<"fish", "0">> \o GetTimestamp(0), FishBox)

FishLostMoved == LostTrack(<<"fish", "0">> \o GetTimestamp(0), FishBoxMoved)

CatLost == LostTrack(<<"cat", "0">> \o GetTimestamp(0), CatBox)

\* a second fish, born one clock unit later
FishNextLost == LostTrack(<<"fish", "1">> \o GetTimestamp(1), FishBoxMoved)

\* the lost lists handed to AppendDets: the published tracks a pass did not match.  The
\* last one holds fish_0 twice, as the published list does once a revived track was
\* matched next to its buffered copy
LostLists ==
    {<<>>, <<FishLost>>, <<FishLostMoved>>, <<CatLost>>, <<FishNextLost>>, <<CatLost, FishLost>>,
     <<FishLostMoved, CatLost>>, <<FishLost, FishLostMoved>>}

InitBuffer == InitWith({"rich"}, {1}, 1..MaxCap, {2})

BufferAppend(lost) ==
    /\ bufPrev' = lostDetectionsBuffer.detections
    /\ bufArg' = lost
    /\ lostDetectionsBuffer' = AppendDets(lostDetectionsBuffer, lost)
    /\ pass' = [NoPass EXCEPT !.kind = "append"]
    /\ UNCHANGED <<cfgVars, query, mem, triggerVars, publishedVars, phase, classCounter, tracks,
                   engineCancelled, prodPc, closePc, now, trigTimes, passes>>

NextBuffer == \E lost \in LostLists : BufferAppend(lost)

SpecBuffer == InitBuffer /\ [][NextBuffer]_vars

-----------------------------------------------------------------------------
(* The engine with its pointers.  A *track is an address into mem.heap, a []*track a   *)
(* slice [arr, len] of a backing array of mem.arrays (arr 0 is the nil slice; an       *)
(* array is as long as its capacity, unwritten elements being 0).  Objects and arrays  *)
(* are never freed.                                                                    *)

NilSlice == [arr |-> 0, len |-> 0]

\* the addresses a slice holds
Elems(arrays, sl) == IF sl.arr = 0 THEN <<>> ELSE SubSeq(arrays[sl.arr], 1, sl.len)

\* the tracks a sequence of addresses points to
Deref(heap, addrs) == [i \in 1..Len(addrs) |-> heap[addrs[i]]]

\* the largest capacity left over in the backing array of a published list
MaxSpare == 1

\* number of run-loop passes explored by the specification with pointers
MaxPtrTicks == 3

\* the frames of the specification with pointers
PtrFrames == {<<>>, <<Fish>>, <<Fish, FishMoved>>}

\* a list built by appends to make([]*track, 0): a new array holding addrs, with the
\* spare capacity the growth of the appends has left
MakeSlice(arrays, addrs, spare) ==
    [arrays |-> Append(arrays, addrs \o [i \in 1..spare |-> 0]),
     slice |-> [arr |-> Len(arrays) + 1, len |-> Len(addrs)]]

\* append(sl, x) for every x of xs: written in place while the capacity lasts, moved to
\* a new array otherwise
RECURSIVE AppendSlice(_, _, _)
AppendSlice(arrays, sl, xs) ==
    IF xs = <<>> THEN [arrays |-> arrays, slice |-> sl]
    ELSE IF sl.arr # 0 /\ sl.len < Len(arrays[sl.arr])
    THEN AppendSlice([arrays EXCEPT ![sl.arr][sl.len + 1] = Head(xs)],
                     [sl EXCEPT !.len = @ + 1], Tail(xs))
    ELSE AppendSlice(Append(arrays, Append(Elems(arrays, sl), Head(xs))),
                     [arr |-> Len(arrays) + 1, len |-> sl.len + 1], Tail(xs))

\* newTracks: one new object for every detection; m is any record with a heap field
AllocTracks(heap, dets, lim) == heap \o newTracks(dets, lim)

\* index of the first entry with this count label, 0 when there is none
FirstWith(heap, addrs, countLabel) ==
    IF \A i \in 1..Len(addrs) : CountLabel(heap[addrs[i]].Det.label) # countLabel THEN 0
    ELSE CHOOSE i \in 1..Len(addrs) :
            /\ CountLabel(heap[addrs[i]].Det.label) = countLabel
            /\ \A j \in 1..(i - 1) : CountLabel(heap[addrs[j]].Det.label) # countLabel

\* append(dets[:idx], dets[idx+1:]...): the tail is moved down inside the array
ShiftOut(arr, len, idx) ==
    [k \in 1..Len(arr) |-> IF k >= idx /\ k < len THEN arr[k + 1] ELSE arr[k]]

\* b.detections[i] = append(dets[:idx], dets[idx+1:]...) when idx is not 0;
\* st = [arrays, buf]
RemoveAt(st, i, idx) ==
    IF idx = 0 THEN st
    ELSE [arrays |-> [st.arrays EXCEPT ![st.buf[i].arr] = ShiftOut(@, st.buf[i].len, idx)],
          buf |-> [st.buf EXCEPT ![i].len = @ - 1]]

\* the loop of AppendDets over the slots for one new detection
RECURSIVE RemoveFromSlots(_, _, _, _)
RemoveFromSlots(st, heap, countLabel, i) ==
    IF i > Len(st.buf) THEN st
    ELSE RemoveFromSlots(RemoveAt(st, i, FirstWith(heap, Elems(st.arrays, st.buf[i]),
                                                   countLabel)),
                         heap, countLabel, i + 1)

\* the loop of AppendDets over the new detections
RECURSIVE RemoveOldDetsPtr(_, _, _)
RemoveOldDetsPtr(st, heap, newAddrs) ==
    IF newAddrs = <<>> THEN st
    ELSE RemoveOldDetsPtr(RemoveFromSlots(st, heap,
                                          CountLabel(heap[Head(newAddrs)].Det.label), 1),
                          heap, Tail(newAddrs))

\* the last statement of AppendDets
PushSlot(st, newDets) == [arrays |-> st.arrays, buf |-> Append(st.buf, newDets)]

\* AppendDets on the slices of the buffer; newDets is a slice
AppendDetsPtr(arrays, buf, size, heap, newDets) ==
    PushSlot(RemoveOldDetsPtr([arrays |-> arrays,
                               buf |-> IF Len(buf) = size THEN Tail(buf) ELSE buf],
                              heap, Elems(arrays, newDets)),
             newDets)

\* the track UpdateTrack computes from the old matched track and the next track
NextTrackValue(m, nextA, oldA) ==
    Reclassified(addPersistence(ReplaceBoundingBox(m.heap[oldA], m.heap[nextA].Det.box)),
                 m.heap[nextA].detClassification)

\* the end of UpdateTrack and its caller: the track at address a goes to its history
\* and to the updated or the newly stable list
UpdatedAt(m, a, wasStable) ==
    [m EXCEPT !.tracks = IF HasKey(m.tracks, getTrackingLabel(m.heap[a]))
                         THEN [m.tracks EXCEPT ![getTrackingLabel(m.heap[a])] = Append(@, a)]
                         ELSE m.tracks,
              !.updated = IF wasStable # isStable(m.heap[a]) THEN @ ELSE Append(@, a),
              !.newlyStable = IF wasStable # isStable(m.heap[a]) THEN Append(@, a) ELSE @]

\* UpdateTrack that writes the box and the persistence into the old matched track
UpdateTrackShared(m, nextA, oldA) ==
    UpdatedAt([m EXCEPT !.heap[oldA] = NextTrackValue(m, nextA, oldA)], oldA,
              isStable(m.heap[oldA]))

\* UpdateTrack: ReplaceBoundingBox clones the old matched track, the clone is counted
UpdateTrackPtr(m, nextA, oldA) ==
    UpdatedAt([m EXCEPT !.heap = Append(@, NextTrackValue(m, nextA, oldA))], Len(m.heap) + 1,
              isStable(m.heap[oldA]))

\* the state of RenameFromMatches before its first loop
RenameStartPtr(heap, trks, counters, n) ==
    [heap |-> heap, tracks |-> trks, classCounter |-> counters, updated |-> <<>>,
     newlyStable |-> <<>>, fresh |-> <<>>, notUsed |-> {j - 1 : j \in 1..n}]

\* first loop of RenameFromMatches
RECURSIVE RenameMatchedPtr(_, _, _, _, _, _)
RenameMatchedPtr(m, matches, mtx, oldAddrs, newAddrs, oldIdx) ==
    IF oldIdx > Len(matches) THEN m
    ELSE IF ~MatchTaken(matches, mtx, Deref(m.heap, oldAddrs), Deref(m.heap, newAddrs), oldIdx)
    THEN RenameMatchedPtr(m, matches, mtx, oldAddrs, newAddrs, oldIdx + 1)
    ELSE RenameMatchedPtr([UpdateTrackPtr(m, newAddrs[matches[oldIdx] + 1], oldAddrs[oldIdx])
                              EXCEPT !.notUsed = @ \ {matches[oldIdx]}],
                          matches, mtx, oldAddrs, newAddrs, oldIdx + 1)

\* RenameFirstTime: r is its result on the values; ReplaceLabel makes a new object
FreshAt(m, r) ==
    [m EXCEPT !.heap = Append(@, r.out),
              !.classCounter = r.classCounter,
              !.tracks = MapPut(@, getTrackingLabel(r.out), <<Len(m.heap) + 1>>),
              !.fresh = Append(@, Len(m.heap) + 1)]

\* second loop of RenameFromMatches, and the renaming of the first frame in newTracker
RECURSIVE RenameFreshPtr(_, _, _, _)
RenameFreshPtr(m, newAddrs, order, clock) ==
    IF order = <<>> THEN m
    ELSE RenameFreshPtr(FreshAt(m, RenameFirstTime([classCounter |-> m.classCounter,
                                                    tracks |-> EmptyMap],
                                                   m.heap[newAddrs[Head(order) + 1]], clock)),
                        newAddrs, Tail(order), clock)

\* the tracks map with its histories read through the heap
DerefTracks(heap, trks) == [id \in DOMAIN trks |-> Deref(heap, trks[id])]

\* the lost detections: the unmatched stable rows among addrs
LostAddrs(heap, addrs, matches) ==
    LET rows == SelectSeq([i \in 1..Len(addrs) |-> i],
                          LAMBDA i : matches[i] = -1 /\ isStable(heap[addrs[i]]))
    IN [k \in 1..Len(rows) |-> addrs[rows[k]]]

\* the tracks map after the unmatched rows that are not stable were deleted from it
DropUnstable(trks, heap, addrs, matches) ==
    [id \in DOMAIN trks \ {getTrackingLabel(heap[addrs[i]]) :
                               i \in {j \in 1..Len(addrs) :
                                          matches[j] = -1 /\ ~isStable(heap[addrs[j]])}}
        |-> trks[id]]

\* trigger() as one step
TriggerWhole ==
    /\ ctxCancelled' = IF triggerGen # 0 THEN ctxCancelled \cup {triggerGen} ELSE ctxCancelled
    /\ triggerGen' = triggerGen + 1
    /\ trigTimes' = Append(trigTimes, now)
    /\ newInstance' = TRUE
    /\ tasks' = MapPut(tasks, triggerGen + 1, [pc |-> "start", deadline |-> 0, ctx |-> 0])

\* a published list and the tracks it held when it was published
Snapshot(heap, arrays, sl) == [slice |-> sl, tracks |-> Deref(heap, Elems(arrays, sl))]

ptrUnchanged ==
    <<cfgVars, query, lastDetections, currDetections, lostDetectionsBuffer, classCounter,
      tracks, engineCancelled, prodPc, closePc, now, pass, passes, bufArg, bufPrev, phase>>

\* newTracker: both frames are turned into tracks, the first is renamed from scratch,
\* the second is matched against it; the updated and newly stable tracks are published
PtrNewTracker(frame0, frame1, spare) ==
    /\ mem.pc = "new"
    /\ \E fd0 \in {FilterDetections(chosenLabels, frame0, minConfidence)} :
       \E fd1 \in {FilterDetections(chosenLabels, frame1, minConfidence)} :
       \E filteredNew \in {[j \in 1..Len(fd1) |-> Len(mem.heap) + Len(fd0) + j]} :
       \E ro \in {RenameFreshPtr(
                      RenameStartPtr(AllocTracks(AllocTracks(mem.heap, fd0, minTrackPersistence),
                                                 fd1, minTrackPersistence),
                                     mem.tracks, mem.classCounter, 0),
                      [i \in 1..Len(fd0) |-> Len(mem.heap) + i],
                      [i \in 1..Len(fd0) |-> i - 1], now)} :
       \E matchMtx \in {BuildMatchingMatrix(DerefTracks(ro.heap, ro.tracks),
                                            Deref(ro.heap, ro.fresh),
                                            Deref(ro.heap, filteredNew))} :
       \E matches \in HungarianExecute(matchMtx, Len(filteredNew)) :
       \E lost \in {AppendSlice(mem.arrays, NilSlice, LostAddrs(ro.heap, ro.fresh, matches))} :
       \E b \in {AppendDetsPtr(lost.arrays, mem.buf, lostDetectionsBuffer.size, ro.heap,
                               lost.slice)} :
       \E m1 \in {RenameMatchedPtr(RenameStartPtr(ro.heap, ro.tracks, ro.classCounter,
                                                  Len(filteredNew)),
                                   matches, matchMtx, ro.fresh, filteredNew, 1)} :
       \E order \in Orders(m1.notUsed) :
       \E r \in {RenameFreshPtr(m1, filteredNew, order, now)} :
       \E pub \in {MakeSlice(b.arrays, r.updated \o r.newlyStable, spare)} :
          /\ mem' = [pc |-> "idle", heap |-> r.heap, arrays |-> pub.arrays,
                     last |-> pub.slice, curr |-> pub.slice, buf |-> b.buf,
                     tracks |-> r.tracks, classCounter |-> r.classCounter, passes |-> 0,
                     local |-> <<>>,
                     published |-> <<Snapshot(r.heap, pub.arrays, pub.slice)>>]
          /\ IF Len(r.newlyStable) > 0 THEN TriggerWhole
             ELSE UNCHANGED <<triggerVars, trigTimes>>
    /\ UNCHANGED <<ptrUnchanged, allFreshObjects, currImg, timeStats>>

\* a pass of run up to AppendDets: the new tracks are made, the pool is appended to
\* lastDetections, matched, and the lost tracks are dropped or handed to the buffer
PtrMatch(frame) ==
    /\ mem.pc = "idle"
    /\ mem.passes < MaxPtrTicks
    /\ \E fd \in {FilterDetections(chosenLabels, frame, minConfidence)} :
       \E heap1 \in {AllocTracks(mem.heap, fd, minTrackPersistence)} :
       \E filteredNew \in {[j \in 1..Len(fd) |-> Len(mem.heap) + j]} :
       \E all \in {AppendSlice(mem.arrays, mem.last,
                               Concat([k \in 1..Len(mem.buf) |-> Elems(mem.arrays, mem.buf[k])]))} :
       \E allDetections \in {Elems(all.arrays, all.slice)} :
       \E matchMtx \in {BuildMatchingMatrix(DerefTracks(heap1, mem.tracks),
                                            Deref(heap1, allDetections),
                                            Deref(heap1, filteredNew))} :
       \E matches \in HungarianExecute(matchMtx, Len(filteredNew)) :
       \E lost \in {AppendSlice(all.arrays, NilSlice,
                                LostAddrs(heap1, Elems(all.arrays, mem.last), matches))} :
       \E b \in {AppendDetsPtr(lost.arrays, mem.buf, lostDetectionsBuffer.size, heap1,
                               lost.slice)} :
          mem' = [mem EXCEPT !.pc = "rename", !.heap = heap1, !.arrays = b.arrays,
                             !.buf = b.buf,
                             !.tracks = DropUnstable(@, heap1, Elems(all.arrays, mem.last),
                                                     matches),
                             !.local = [all |-> allDetections, new |-> filteredNew,
                                        matches |-> matches, mtx |-> matchMtx]]
    /\ UNCHANGED <<ptrUnchanged, triggerVars, trigTimes, allFreshObjects, currImg, timeStats>>

\* RenameFromMatches on the heap (tracker.go 253)
PtrRename ==
    /\ mem.pc = "rename"
    /\ \E m1 \in {RenameMatchedPtr(RenameStartPtr(mem.heap, mem.tracks, mem.classCounter,
                                                  Len(mem.local.new)),
                                   mem.local.matches, mem.local.mtx, mem.local.all,
                                   mem.local.new, 1)} :
       \E order \in Orders(m1.notUsed) :
       \E r \in {RenameFreshPtr(m1, mem.local.new, order, now)} :
          mem' = [mem EXCEPT !.pc = IF Len(r.newlyStable) > 0 THEN "trigger" ELSE "publish",
                             !.heap = r.heap, !.tracks = r.tracks,
                             !.classCounter = r.classCounter,
                             !.local = [out |-> r.updated \o r.newlyStable \o r.fresh,
                                        newlyStable |-> r.newlyStable]]
    /\ UNCHANGED <<ptrUnchanged, triggerVars, trigTimes, allFreshObjects, currImg, timeStats>>

\* t.trigger() for the newly stable tracks (tracker.go 256)
PtrTrigger ==
    /\ mem.pc = "trigger"
    /\ TriggerWhole
    /\ mem' = [mem EXCEPT !.pc = "log"]
    /\ UNCHANGED <<ptrUnchanged, allFreshObjects, currImg, timeStats>>

\* the objects of the newly stable tracks are appended to the log (tracker.go 259-267)
PtrLog ==
    /\ mem.pc = "log"
    /\ allFreshObjects' =
          allFreshObjects \o [i \in 1..Len(mem.local.newlyStable) |->
              newTrackedObjectFromLabel(mem.heap[mem.local.newlyStable[i]].Det.label)]
    /\ mem' = [mem EXCEPT !.pc = "publish"]
    /\ UNCHANGED <<ptrUnchanged, triggerVars, trigTimes, currImg, timeStats>>

\* the renamed list is stored in lastDetections and, under the lock, in currDetections
\* (tracker.go 271-274)
PtrPublish(spare) ==
    /\ mem.pc = "publish"
    /\ \E pub \in {MakeSlice(mem.arrays, mem.local.out, spare)} :
          mem' = [mem EXCEPT !.pc = "image", !.arrays = pub.arrays, !.last = pub.slice,
                             !.curr = pub.slice, !.local = <<>>,
                             !.published = Append(@, Snapshot(mem.heap, pub.arrays, pub.slice))]
    /\ UNCHANGED <<ptrUnchanged, triggerVars, trigTimes, allFreshObjects, currImg, timeStats>>

\* t.currImg.Store(&img) (tracker.go 275)
PtrStoreImage ==
    /\ mem.pc = "image"
    /\ currImg' = mem.passes + 1
    /\ mem' = [mem EXCEPT !.pc = "stats"]
    /\ UNCHANGED <<ptrUnchanged, triggerVars, trigTimes, allFreshObjects, timeStats>>

\* t.timeStats = append(t.timeStats, took): the pass is over (tracker.go 278)
PtrTimeStats ==
    /\ mem.pc = "stats"
    /\ timeStats' = timeStats + 1
    /\ mem' = [mem EXCEPT !.pc = "idle", !.passes = @ + 1]
    /\ UNCHANGED <<ptrUnchanged, triggerVars, trigTimes, allFreshObjects, currImg>>

\* a buffer of three slots: a lost track is still buffered when it is lost again
InitPtr == InitWith({"rich"}, {1}, {3}, {2})

NextPtr ==
    \/ \E frame0, frame1 \in PtrFrames : \E spare \in 0..MaxSpare :
          PtrNewTracker(frame0, frame1, spare)
    \/ \E frame \in PtrFrames : PtrMatch(frame)
    \/ PtrRename
    \/ PtrTrigger
    \/ PtrLog
    \/ \E spare \in 0..MaxSpare : PtrPublish(spare)
    \/ PtrStoreImage
    \/ PtrTimeStats

SpecPtr == InitPtr /\ [][NextPtr]_vars

-----------------------------------------------------------------------------
(* The engine with a classifier configured.  classifyTracks (classify.go) is in the    *)
(* sources; its call in run belongs to the tracker.go that reads pizza_classifier_name, *)
(* which is not: the step is placed where the written description of the pass has it,   *)
(* after the new tracks are made and before the pool is built.                          *)

\* the bound on the loop passes of the engine with a classifier
MaxClassifierTicks == 3

\* the labels a classifier returns for a crop; NoClassification when it returns nothing
ClassLabels == {NoClassification, "partial", "full"}

\* classifyTracks: the tracks with the classifications cls[i] attached; a track whose
\* crop got no answer is left as it is
classifyTracks(trs, cls) ==
    [i \in 1..Len(trs) |->
        IF cls[i] = NoClassification THEN trs[i] ELSE [trs[i] EXCEPT !.detClassification = cls[i]]]

\* the frames of the passes
ClassifierFrames == {<<Cat>>, <<Fish>>, <<FishMoved>>, <<Cat, Fish>>}

\* the answers of the classifier for the crops of n tracks, at least one of them a label
ClassifierAnswers(n) ==
    {cls \in [1..n -> ClassLabels] : \E i \in 1..n : cls[i] # NoClassification}

\* the classifier is asked for the top classification of the crop of every new track
TickClassify(cls) ==
    /\ prodPc = "pool"
    /\ pass.kind = "new"
    /\ ~pass.classified
    /\ pass' = [pass EXCEPT !.new = classifyTracks(pass.new, cls), !.classified = TRUE]
    /\ UNCHANGED <<cfgVars, query, mem, triggerVars, publishedVars, phase, lostDetectionsBuffer,
                   classCounter, tracks, engineCancelled, prodPc, closePc, now, trigTimes,
                   passes, bufArg, bufPrev>>

InitClassifier == InitWith({"rich"}, {1}, BufferConfigs, {2})

NextClassifier ==
    \/ \E frame0, frame1 \in {<<>>, <<Cat>>, <<Fish>>} : NewTrackerStart(frame0, frame1)
    \/ passes < MaxClassifierTicks /\ TickBegin
    \/ FrameArrives
    \/ \E frame \in ClassifierFrames : TickStart(frame)
    \/ TickFilter
    \/ TickNewTracks
    \/ \E cls \in ClassifierAnswers(Len(pass.new)) : TickClassify(cls)
    \/ TickMatch
    \/ TickRename
    \/ TriggerCancel
    \/ TriggerStore
    \/ TriggerSpawn
    \/ PublishLog
    \/ PublishLists(1)
    \/ PublishImage
    \/ TimeStatsRead
    \/ PublishStats
    \/ WaitForPeriod(1)

SpecClassifier == InitClassifier /\ [][NextClassifier]_vars

-----------------------------------------------------------------------------
(* The detection filter on its own: a tracker whose chosen_labels and          *)
(* min_confidence are drawn from the configurations, and one call of the       *)
(* filter on a detector output                                                 *)

\* longest detector output handed to the filter
MaxDets == 2

SeqsUpTo(S, n) == UNION {[1..k -> S] : k \in 0..n}

\* chosen_labels of the configuration; a key is kept as the configuration spells it
LabelConfigs ==
    {EmptyMap, [c \in {"cat"} |-> 50], [c \in {"Cat"} |-> 20],
     [c \in {"cat", "fish"} |-> IF c = "cat" THEN 50 ELSE 20]}

ConfConfigs == {20, 50, 60}

\* detector outputs: labels as the detector spells them, scores in hundredths
RawDetections ==
    {NewDetection(CatBox, s, l) : s \in {20, 50, 90},
                                  l \in {<<"cat">>, <<"Fish">>, <<"fish", "7">>, <<"dog">>}}

\* the tracker as constructed, with the given configuration and the given call record
InitPure(labels, conf, call) ==
    /\ variant = "rich"
    /\ minTrackPersistence = DefaultMinTrackPersistence
    /\ lostDetectionsBuffer = newTracksBuffer(DefaultBufferSize)
    /\ coolDown = 2
    /\ frequency = DefaultMaxFrequency
    /\ camName = CamName
    /\ cam = CamName
    /\ detector = DetectorName
    /\ reconf = NoReconfigure
    /\ chosenLabels = labels
    /\ minConfidence = conf
    /\ phase = "new"
    /\ lastDetections = <<>>
    /\ currDetections = <<>>
    /\ currImg = 0
    /\ classCounter = EmptyMap
    /\ tracks = EmptyMap
    /\ allFreshObjects = <<>>
    /\ timeStats = 0
    /\ newInstance = FALSE
    /\ triggerGen = 0
    /\ ctxCancelled = {}
    /\ engineCancelled = FALSE
    /\ tasks = EmptyMap
    /\ prodPc = "idle"
    /\ closePc = "none"
    /\ now = 0
    /\ trigTimes = <<>>
    /\ pass = call
    /\ passes = 0
    /\ bufArg = <<>>
    /\ bufPrev = <<>>
    /\ query = NoQuery
    /\ mem = [pc |-> "new", heap |-> <<>>, arrays |-> <<>>, last |-> [arr |-> 0, len |-> 0],
              curr |-> [arr |-> 0, len |-> 0], buf |-> <<>>, tracks |-> EmptyMap,
              classCounter |-> EmptyMap, passes |-> 0, local |-> <<>>, published |-> <<>>]

InitFilter ==
    \E labels \in LabelConfigs, conf \in ConfConfigs, dets \in SeqsUpTo(RawDetections, MaxDets) :
        InitPure(labels, conf, [NoPass EXCEPT !.kind = "dets", !.new = dets])

\* filteredNew := FilterDetections(t.chosenLabels, detections, t.minConfidence)
FilterCall ==
    /\ pass.kind = "dets"
    /\ pass' = [pass EXCEPT !.kind = "filtered",
                            !.published = FilterDetections(chosenLabels, pass.new,
                                                           minConfidence)]
    /\ UNCHANGED <<cfgVars, query, mem, triggerVars, publishedVars, phase, engineCancelled,
                   prodPc, closePc, now, trigTimes, lostDetectionsBuffer, classCounter,
                   tracks, passes, bufArg, bufPrev>>

NextFilter ==
    \/ FilterCall

SpecFilter == InitFilter /\ [][NextFilter]_vars

-----------------------------------------------------------------------------
(* The geometry on its own: IOU and PredictNextFrame on pairs of rectangles    *)

\* largest corner coordinate of the rectangles drawn
MaxCoord == 3

\* image.Rect with integer corners and a positive area
Rectangles ==
    {r \in [x0 : 0..MaxCoord, y0 : 0..MaxCoord, x1 : 0..MaxCoord, y1 : 0..MaxCoord] :
        ~Empty(r)}

InitGeometry ==
    \E r1 \in Rectangles, r2 \in Rectangles :
        InitPure(EmptyMap, DefaultMinConfidence,
                 [NoPass EXCEPT !.kind = "boxes", !.pool = <<r1, r2>>])

\* IOU(&r1, &r2)
IOUCall ==
    /\ pass.kind = "boxes"
    /\ pass' = [pass EXCEPT !.kind = "iou", !.mtx = <<<<IOU(pass.pool[1], pass.pool[2])>>>>]
    /\ UNCHANGED <<cfgVars, query, mem, triggerVars, publishedVars, phase, engineCancelled,
                   prodPc, closePc, now, trigTimes, lostDetectionsBuffer, classCounter,
                   tracks, passes, bufArg, bufPrev>>

\* PredictNextFrame(old, curr)
PredictCall ==
    /\ pass.kind = "boxes"
    /\ pass' = [pass EXCEPT !.kind = "predicted",
                            !.new = <<PredictNextFrame(pass.pool[1], pass.pool[2])>>]
    /\ UNCHANGED <<cfgVars, query, mem, triggerVars, publishedVars, phase, engineCancelled,
                   prodPc, closePc, now, trigTimes, lostDetectionsBuffer, classCounter,
                   tracks, passes, bufArg, bufPrev>>

NextGeometry ==
    \/ IOUCall
    \/ PredictCall

SpecGeometry == InitGeometry /\ [][NextGeometry]_vars

-----------------------------------------------------------------------------
(* Reconfigure on the live tracker: myTracker has a Reconfigure method and no   *)
(* marker that makes the framework rebuild it, so a configuration change calls  *)
(* the method on the instance whose producer is running                         *)

\* a configuration with every optional attribute absent, and the camera and the vision
\* service among the dependencies; *float64 attributes are sequences of at most one
\* value, the empty one for a nil pointer
BaseConfig ==
    [native |-> TRUE, CameraName |-> CamName, DetectorName |-> DetectorName,
     ChosenLabels |-> EmptyMap, MinTrackPersistence |-> 0, MaxFrequency |-> 0,
     MinConfidence |-> <<>>, TriggerCoolDown |-> <<>>, BufferSize |-> 0,
     deps |-> {CamName, DetectorName}]

FullConfig ==
    [BaseConfig EXCEPT !.MinTrackPersistence = 2, !.MaxFrequency = 10, !.BufferSize = 1,
                       !.TriggerCoolDown = <<2>>, !.MinConfidence = <<50>>,
                       !.ChosenLabels = [c \in {"cat"} |-> 50]]

\* the configurations handed to Reconfigure: three that it accepts (two of them leave
\* min_track_persistence out, one of these max_frequency_hz too) and one for each of its
\* error returns
NewConfigs ==
    {[BaseConfig EXCEPT !.BufferSize = 2, !.TriggerCoolDown = <<2>>],
     [BaseConfig EXCEPT !.BufferSize = 2, !.TriggerCoolDown = <<2>>, !.MaxFrequency = 10],
     FullConfig,
     [FullConfig EXCEPT !.native = FALSE],
     [FullConfig EXCEPT !.MaxFrequency = -1],
     [FullConfig EXCEPT !.BufferSize = MaxBufferSize + 1],
     [FullConfig EXCEPT !.TriggerCoolDown = <<-1>>],
     [FullConfig EXCEPT !.MinConfidence = <<150>>],
     [FullConfig EXCEPT !.deps = {DetectorName}],
     [FullConfig EXCEPT !.deps = {CamName}]}

\* what a step of Reconfigure leaves alone besides the fields of the configuration
reconfUnchanged ==
    <<variant, query, mem, triggerVars, lastDetections, currDetections, currImg,
      allFreshObjects, phase, classCounter, tracks, engineCancelled, prodPc, closePc, now,
      trigTimes, pass, passes, bufArg, bufPrev>>

\* Reconfigure returns: with the error err, or nil
ReconfigureReturn(err) == [pc |-> "idle", cfg |-> <<>>, n |-> reconf.n, err |-> err]

\* Reconfigure is called on the running tracker: t.cam = nil, t.detector = nil
\* (tracker.go 351-352).  It takes no lock, and run goes on next to it.
Reconfigure(cfg) ==
    /\ phase = "running"
    /\ ~engineCancelled
    /\ reconf.pc = "idle"
    /\ reconf.n < MaxReconfigures
    /\ reconf' = [pc |-> "timeStats", cfg |-> cfg, n |-> reconf.n + 1, err |-> FALSE]
    /\ cam' = Nil
    /\ detector' = Nil
    /\ UNCHANGED <<reconfUnchanged, timeStats, lostDetectionsBuffer, minTrackPersistence,
                   chosenLabels, minConfidence, coolDown, frequency, camName>>

\* t.timeStats = timeList (tracker.go 353)
ReconfigureTimeStats ==
    /\ reconf.pc = "timeStats"
    /\ timeStats' = 0
    /\ reconf' = [reconf EXCEPT !.pc = "frequency"]
    /\ UNCHANGED <<reconfUnchanged, lostDetectionsBuffer, minTrackPersistence, chosenLabels,
                   minConfidence, coolDown, frequency, camName, cam, detector>>

\* the configuration is converted and max_frequency_hz is checked and stored as it is:
\* the default is applied by newTracker only (tracker.go 357-366)
ReconfigureFrequency ==
    /\ reconf.pc = "frequency"
    /\ IF ~reconf.cfg.native \/ reconf.cfg.MaxFrequency < 0
       THEN /\ reconf' = ReconfigureReturn(TRUE)
            /\ frequency' = frequency
       ELSE /\ reconf' = [reconf EXCEPT !.pc = "persistence"]
            /\ frequency' = reconf.cfg.MaxFrequency
    /\ UNCHANGED <<reconfUnchanged, timeStats, lostDetectionsBuffer, minTrackPersistence,
                   chosenLabels, minConfidence, coolDown, camName, cam, detector>>

\* t.minTrackPersistence = trackerConfig.MinTrackPersistence, as it is: the default is
\* applied by newTracker only (tracker.go 368)
ReconfigurePersistence ==
    /\ reconf.pc = "persistence"
    /\ minTrackPersistence' = reconf.cfg.MinTrackPersistence
    /\ reconf' = [reconf EXCEPT !.pc = "buffer"]
    /\ UNCHANGED <<reconfUnchanged, timeStats, lostDetectionsBuffer, chosenLabels,
                   minConfidence, coolDown, frequency, camName, cam, detector>>

\* a new lost buffer replaces the old one, unless buffer_size is too large
\* (tracker.go 371-378)
ReconfigureBuffer ==
    /\ reconf.pc = "buffer"
    /\ IF reconf.cfg.BufferSize > MaxBufferSize
       THEN /\ reconf' = ReconfigureReturn(TRUE)
            /\ lostDetectionsBuffer' = lostDetectionsBuffer
       ELSE /\ reconf' = [reconf EXCEPT !.pc = "coolDown"]
            /\ lostDetectionsBuffer' =
                  newTracksBuffer(IF reconf.cfg.BufferSize > 0 THEN reconf.cfg.BufferSize
                                  ELSE DefaultBufferSize)
    /\ UNCHANGED <<reconfUnchanged, timeStats, minTrackPersistence, chosenLabels,
                   minConfidence, coolDown, frequency, camName, cam, detector>>

\* trigger_cool_down_s is checked and stored, or its default is (tracker.go 381-388)
ReconfigureCoolDown ==
    /\ reconf.pc = "coolDown"
    /\ IF reconf.cfg.TriggerCoolDown # <<>> /\ reconf.cfg.TriggerCoolDown[1] < 0
       THEN /\ reconf' = ReconfigureReturn(TRUE)
            /\ coolDown' = coolDown
       ELSE /\ reconf' = [reconf EXCEPT !.pc = "minConfidence"]
            /\ coolDown' = IF reconf.cfg.TriggerCoolDown # <<>>
                           THEN reconf.cfg.TriggerCoolDown[1]
                           ELSE DefaultTriggerCoolDown
    /\ UNCHANGED <<reconfUnchanged, timeStats, lostDetectionsBuffer, minTrackPersistence,
                   chosenLabels, minConfidence, frequency, camName, cam, detector>>

\* min_confidence or its default is stored, and checked afterwards (tracker.go 391-398)
ReconfigureMinConfidence ==
    /\ reconf.pc = "minConfidence"
    /\ minConfidence' = IF reconf.cfg.MinConfidence # <<>> THEN reconf.cfg.MinConfidence[1]
                        ELSE DefaultMinConfidence
    /\ reconf' = IF minConfidence' < 0 \/ minConfidence' > 100
                 THEN ReconfigureReturn(TRUE)
                 ELSE [reconf EXCEPT !.pc = "chosenLabels"]
    /\ UNCHANGED <<reconfUnchanged, timeStats, lostDetectionsBuffer, minTrackPersistence,
                   chosenLabels, coolDown, frequency, camName, cam, detector>>

\* t.chosenLabels = trackerConfig.ChosenLabels (tracker.go 400)
ReconfigureChosenLabels ==
    /\ reconf.pc = "chosenLabels"
    /\ chosenLabels' = reconf.cfg.ChosenLabels
    /\ reconf' = [reconf EXCEPT !.pc = "camName"]
    /\ UNCHANGED <<reconfUnchanged, timeStats, lostDetectionsBuffer, minTrackPersistence,
                   minConfidence, coolDown, frequency, camName, cam, detector>>

\* t.camName = trackerConfig.CameraName (tracker.go 401)
ReconfigureCamName ==
    /\ reconf.pc = "camName"
    /\ camName' = reconf.cfg.CameraName
    /\ reconf' = [reconf EXCEPT !.pc = "cam"]
    /\ UNCHANGED <<reconfUnchanged, timeStats, lostDetectionsBuffer, minTrackPersistence,
                   chosenLabels, minConfidence, coolDown, frequency, cam, detector>>

\* t.cam, err = camera.FromDependencies(...) (tracker.go 402-405)
ReconfigureCam ==
    /\ reconf.pc = "cam"
    /\ IF reconf.cfg.CameraName \in reconf.cfg.deps
       THEN /\ cam' = reconf.cfg.CameraName
            /\ reconf' = [reconf EXCEPT !.pc = "detector"]
       ELSE /\ cam' = Nil
            /\ reconf' = ReconfigureReturn(TRUE)
    /\ UNCHANGED <<reconfUnchanged, timeStats, lostDetectionsBuffer, minTrackPersistence,
                   chosenLabels, minConfidence, coolDown, frequency, camName, detector>>

\* t.detector, err = vision.FromDependencies(...), and Reconfigure returns
\* (tracker.go 406-410)
ReconfigureDetector ==
    /\ reconf.pc = "detector"
    /\ IF reconf.cfg.DetectorName \in reconf.cfg.deps
       THEN /\ detector' = reconf.cfg.DetectorName
            /\ reconf' = ReconfigureReturn(FALSE)
       ELSE /\ detector' = Nil
            /\ reconf' = ReconfigureReturn(TRUE)
    /\ UNCHANGED <<reconfUnchanged, timeStats, lostDetectionsBuffer, minTrackPersistence,
                   chosenLabels, minConfidence, coolDown, frequency, camName, cam>>

InitReconfigure == InitWith({"rich"}, {1}, BufferConfigs, {2})

NextReconfigure ==
    \/ \E frame0, frame1 \in TimedFrames : NewTrackerStart(frame0, frame1)
    \/ TickBegin
    \/ FrameArrives
    \/ \E frame \in TimedFrames : TickStart(frame)
    \/ TickFilter
    \/ TickNewTracks
    \/ TickMatch
    \/ TickRename
    \/ TriggerCancel
    \/ TriggerStore
    \/ TriggerSpawn
    \/ PublishLog
    \/ PublishLists(1)
    \/ PublishImage
    \/ TimeStatsRead
    \/ PublishStats
    \/ WaitForPeriod(1)
    \/ \E cfg \in NewConfigs : Reconfigure(cfg)
    \/ ReconfigureTimeStats
    \/ ReconfigureFrequency
    \/ ReconfigurePersistence
    \/ ReconfigureBuffer
    \/ ReconfigureCoolDown
    \/ ReconfigureMinConfidence
    \/ ReconfigureChosenLabels
    \/ ReconfigureCamName
    \/ ReconfigureCam
    \/ ReconfigureDetector

SpecReconfigure == InitReconfigure /\ [][NextReconfigure]_vars

-----------------------------------------------------------------------------
(* DoCommand, step by step, next to the running producer.  timeStats is read   *)
(* without a lock, twice: by len() and by the range loop.                      *)

Commands ==
    {[benchmark |-> TRUE, logs |-> FALSE], [benchmark |-> FALSE, logs |-> TRUE],
     [benchmark |-> TRUE, logs |-> TRUE]}

\* run is executing t.timeStats = append(t.timeStats, took): the list was read and the
\* longer one is about to be stored
AppendsTimeStats == prodPc = "timed"

\* the lengths an unsynchronized read of t.timeStats may see: the current one, or the
\* one being written when the append of run is under way
SeenLengths == IF AppendsTimeStats THEN {timeStats, pass.stats + 1} ELSE {timeStats}

\* DoCommand is entered: out := make(map[string]interface{}), cmd["benchmark"] is tested
DoCommandStart(cmd) ==
    /\ phase = "running"
    /\ query.pc = "idle"
    /\ query' = [NoQuery EXCEPT !.pc = IF cmd.benchmark THEN "len"
                                       ELSE IF cmd.logs THEN "logs" ELSE "done",
                                !.benchmark = cmd.benchmark, !.logs = cmd.logs,
                                !.out = EmptyMap]
    /\ UNCHANGED <<cfgVars, mem, triggerVars, publishedVars, engineVars, phase,
                   engineCancelled, prodPc, closePc, now, trigTimes>>

\* n := int64(len(t.timeStats))
DoCommandLen ==
    /\ query.pc = "len"
    /\ \E n \in SeenLengths : query' = [query EXCEPT !.pc = "range", !.n = n]
    /\ UNCHANGED <<cfgVars, mem, triggerVars, publishedVars, engineVars, phase,
                   engineCancelled, prodPc, closePc, now, trigTimes>>

\* the range loop over t.timeStats and mean := time.Duration(int64(sum) / n): the
\* division panics when n is 0; otherwise the benchmark record is stored in out
DoCommandRange ==
    /\ query.pc = "range"
    /\ \E ranged \in SeenLengths :
          query' = IF query.n = 0
                   THEN [query EXCEPT !.pc = "panicked", !.ranged = ranged]
                   ELSE [query EXCEPT !.pc = IF query.logs THEN "logs" ELSE "done",
                                      !.ranged = ranged,
                                      !.out = MapPut(query.out, "benchmark",
                                                     [NumberOfRuns |-> query.n])]
    /\ UNCHANGED <<cfgVars, mem, triggerVars, publishedVars, engineVars, phase,
                   engineCancelled, prodPc, closePc, now, trigTimes>>

\* out["logs"] = t.allFreshObjects.objects, under the read lock
DoCommandLogs ==
    /\ query.pc = "logs"
    /\ query' = [query EXCEPT !.pc = "done",
                              !.out = MapPut(query.out, "logs", allFreshObjects)]
    /\ UNCHANGED <<cfgVars, mem, triggerVars, publishedVars, engineVars, phase,
                   engineCancelled, prodPc, closePc, now, trigTimes>>

\* the call is over: it returned out, or it panicked
DoCommandReturn ==
    /\ query.pc \in {"done", "panicked"}
    /\ query' = NoQuery
    /\ UNCHANGED <<cfgVars, mem, triggerVars, publishedVars, engineVars, phase,
                   engineCancelled, prodPc, closePc, now, trigTimes>>

NextQuery ==
    \/ \E frame0, frame1 \in TimedFrames : NewTrackerStart(frame0, frame1)
    \/ TickBegin
    \/ FrameArrives
    \/ \E frame \in TimedFrames : TickStart(frame)
    \/ TickFilter
    \/ TickNewTracks
    \/ TickMatch
    \/ TickRename
    \/ TriggerCancel
    \/ TriggerStore
    \/ TriggerSpawn
    \/ PublishLog
    \/ PublishLists(1)
    \/ PublishImage
    \/ TimeStatsRead
    \/ PublishStats
    \/ WaitForPeriod(1)
    \/ \E cmd \in Commands : DoCommandStart(cmd)
    \/ DoCommandLen
    \/ DoCommandRange
    \/ DoCommandLogs
    \/ DoCommandReturn

SpecQuery == InitFaulty /\ [][NextQuery]_vars

-----------------------------------------------------------------------------
(* Properties *)

\* the initialization pass or a loop pass has just been completed
AfterPass == phase = "running" /\ prodPc = "idle"

TrackIds(trs) == [i \in 1..Len(trs) |-> getTrackingLabel(trs[i])]

NoDuplicates(s) == \A i, j \in 1..Len(s) : i # j => s[i] # s[j]

BufferSlots == lostDetectionsBuffer.detections

BufferIds == TrackIds(Concat(BufferSlots))

\* C1: after the initialization pass and after every loop pass no two tracks of
\* lastDetections have the same TrackId, and no two tracks of one buffer slot do
C1_UniqueTrackIds ==
    AfterPass =>
        /\ NoDuplicates(TrackIds(lastDetections))
        /\ \A k \in 1..Len(BufferSlots) : NoDuplicates(TrackIds(BufferSlots[k]))

\* C2: after every pass no TrackId is both in lastDetections and in a buffer slot
C2_LiveOrBuffered ==
    AfterPass => Range(TrackIds(lastDetections)) \cap Range(BufferIds) = {}

\* C3: after every AppendDets call of the engine no TrackId occurs twice in the buffer
C3_BufferIdsUnique == NoDuplicates(BufferIds)

\* the slots an AppendDets call keeps: all but the oldest when the buffer was full
KeptSlots == IF Len(bufPrev) = lostDetectionsBuffer.size THEN Tail(bufPrev) ELSE bufPrev

\* the entries of a slot whose TrackId is not among those of the list dets
OtherIds(slot, dets) ==
    SelectSeq(slot, LAMBDA tr : getTrackingLabel(tr) \notin Range(TrackIds(dets)))

\* C4: the buffer never holds more slots than its capacity; an append to a full buffer
\* leaves it full, its slots being the former slots but the oldest, in their order
C4_BufferCapacity ==
    /\ Len(BufferSlots) <= lostDetectionsBuffer.size
    /\ pass.kind = "append" /\ Len(bufPrev) = lostDetectionsBuffer.size =>
          /\ Len(BufferSlots) = lostDetectionsBuffer.size
          /\ \A k \in 1..(lostDetectionsBuffer.size - 1) :
                /\ Len(BufferSlots[k]) <= Len(bufPrev[k + 1])
                /\ OtherIds(BufferSlots[k], bufArg) = OtherIds(bufPrev[k + 1], bufArg)

\* an append to a full buffer of capacity 3 whose slots held three different tracks:
\* the two newer slots are kept, in their order, before the appended list
C4_Witness ==
    /\ pass.kind = "append"
    /\ lostDetectionsBuffer.size = 3
    /\ Len(bufPrev) = 3
    /\ bufPrev = <<<<CatLost>>, <<FishLost>>, <<FishNextLost>>>>
    /\ BufferSlots = <<<<FishLost>>, <<FishNextLost>>, bufArg>>
    /\ bufArg = <<CatLost>>

\* entry p of a slot survives an append of dets when at least as many entries with its
\* TrackId precede it in the slot as dets has tracks with that TrackId
Survives(slot, dets, p) ==
    Cardinality({q \in 1..(p - 1) : getTrackingLabel(slot[q]) = getTrackingLabel(slot[p])})
        >= Cardinality({i \in 1..Len(dets) :
                          getTrackingLabel(dets[i]) = getTrackingLabel(slot[p])})

RECURSIVE SurvivorsFrom(_, _, _)
SurvivorsFrom(slot, dets, p) ==
    IF p > Len(slot) THEN <<>>
    ELSE (IF Survives(slot, dets, p) THEN <<slot[p]>> ELSE <<>>)
             \o SurvivorsFrom(slot, dets, p + 1)

\* after AppendDets(lost) the newest slot is lost; every older slot has lost, for each
\* track of lost, its first entry with that TrackId and nothing else, the rest in order
FirstEntriesRemoved ==
    pass.kind = "append" =>
        /\ Len(BufferSlots) = Len(KeptSlots) + 1
        /\ BufferSlots[Len(BufferSlots)] = bufArg
        /\ \A k \in 1..Len(KeptSlots) :
              /\ BufferSlots[k] = SurvivorsFrom(KeptSlots[k], bufArg, 1)
              /\ OtherIds(BufferSlots[k], bufArg) = OtherIds(KeptSlots[k], bufArg)

\* C5: after AppendDets(lost) the newest slot is lost and every older slot has lost, for
\* each track of lost, its first entry with that TrackId and nothing else; so an
\* identity of lost is in no older slot any more: only the appended copy remains
C5_AppendDedup ==
    /\ FirstEntriesRemoved
    /\ pass.kind = "append" =>
          \A k \in 1..Len(KeptSlots) :
              Range(TrackIds(BufferSlots[k])) \cap Range(TrackIds(bufArg)) = {}

\* the number of identities minted for class c under the counter map m
Minted(m, c) == IF HasKey(m, c) THEN m[c] + 1 ELSE 0

\* the rows of the pool of the last pass that come from the lost buffer and were
\* matched with nonzero cost
RevivedRows ==
    {i \in (pass.nLast + 1)..Len(pass.pool) :
        /\ pass.matches[i] # -1
        /\ ~RatIsZero(pass.mtx[i][pass.matches[i] + 1])}

\* the label without a trailing classification component: class, index, date, time
Stamp(tr) == SubSeq(tr.Det.label, 1, Min2(4, Len(tr.Det.label)))

\* the detection matched to row i of the pool is published under the TrackId and the
\* birth timestamp of that row with its own box, and is not among the fresh tracks
RevivedAt(i) ==
    LET old == pass.pool[i]
        new == pass.new[pass.matches[i] + 1]
    IN /\ \E k \in 1..Len(lastDetections) :
             /\ getTrackingLabel(lastDetections[k]) = getTrackingLabel(old)
             /\ Stamp(lastDetections[k]) = Stamp(old)
             /\ lastDetections[k].Det.box = new.Det.box
       /\ \A k \in 1..Len(pass.fresh) : pass.fresh[k].Det.box # new.Det.box

\* the class counters grew in the last pass by its fresh tracks and by nothing else
CountersGrewByFresh ==
    \A c \in DOMAIN classCounter :
       Minted(classCounter, c) - Minted(pass.counter0, c)
           = Cardinality({k \in 1..Len(pass.fresh) : pass.fresh[k].Det.label[1] = c})

\* C6: a detection matched with nonzero cost to a row of the lost buffer is published
\* under the buffered TrackId with its own box; it is not among the fresh tracks, and
\* the class counters grew by the fresh tracks only
C6_Revival ==
    AfterPass /\ pass.kind = "run" =>
        /\ \A i \in RevivedRows : RevivedAt(i)
        /\ RevivedRows # {} => CountersGrewByFresh

\* the rows of the lost buffer whose match the classification guard skipped
GuardedBufferRows ==
    {i \in RevivedRows : PartialToFull(pass.pool[i], pass.new[pass.matches[i] + 1])}

\* C6 as amended: a detection matched with nonzero cost to a row of the lost buffer is
\* published under the buffered TrackId with its own box, is not among the fresh tracks
\* and mints no identity, unless the buffered track is stable and classified "partial"
\* and the detection is classified "full": then the detection is one of the fresh
\* tracks, under a TrackId of its own.  The class counters grow by the fresh tracks only.
C6_RevivalUnlessGuarded ==
    AfterPass /\ pass.kind = "run" =>
        /\ \A i \in RevivedRows \ GuardedBufferRows : RevivedAt(i)
        /\ \A i \in GuardedBufferRows :
              \E k \in 1..Len(pass.fresh) :
                 /\ pass.fresh[k].Det.box = pass.new[pass.matches[i] + 1].Det.box
                 /\ getTrackingLabel(pass.fresh[k]) # getTrackingLabel(pass.pool[i])
        /\ RevivedRows # {} => CountersGrewByFresh

\* a buffered track classified "partial" is revived by a detection with another box
\* that the classifier did not call "full"
C6_Witness ==
    /\ AfterPass /\ pass.kind = "run"
    /\ \E i \in RevivedRows \ GuardedBufferRows :
          /\ pass.pool[i].Det.box # pass.new[pass.matches[i] + 1].Det.box
          /\ pass.pool[i].detClassification = "partial"
          /\ \E k \in 1..Len(lastDetections) :
                /\ getTrackingLabel(lastDetections[k]) = getTrackingLabel(pass.pool[i])
                /\ lastDetections[k].Det.box = pass.new[pass.matches[i] + 1].Det.box

\* the tracks histories as they were when the list in currDetections was published: a
\* pass changes tracks from its match step on and publishes the list at its lists step
PublishedHistory ==
    IF prodPc \in {"append", "trigger", "store", "spawn", "log", "lists"}
    THEN pass.tracks0 ELSE tracks

\* the number of times a published track had been matched since it was born
Matched(tr) ==
    IF HasKey(PublishedHistory, getTrackingLabel(tr))
    THEN Len(PublishedHistory[getTrackingLabel(tr)]) - 1 ELSE 0

\* the detections of the published tracks matched at least lim(tr) times
MatchedAtLeast(lim(_)) ==
    LET st == SelectSeq(currDetections, LAMBDA tr : Matched(tr) >= lim(tr))
    IN [i \in 1..Len(st) |-> st[i].Det]

\* the limit a track was born with
LimitOf(tr) == tr.persistenceLimit

\* the published tracks matched persistence_limit times or more
PersistentDetections == MatchedAtLeast(LimitOf)

\* the step at which a call of Detections, DetectionsFromCamera or CaptureAllFromCamera
\* reads the published list
ReadsDetections == query.pc \in {"read", "detections"} /\ query'.pc # query.pc

\* C7: whenever Detections, DetectionsFromCamera or CaptureAllFromCamera reads the
\* published list, in any state of the producer, the call gets exactly the published
\* tracks that were matched persistence_limit times or more since they were born, in
\* order: a track is hidden before its persistence_limit-th match and shown from it on
C7_StableOnly ==
    [][ReadsDetections =>
          query'.res.err = "" /\ query'.res.dets = PersistentDetections]_vars

\* what addPersistence makes of the limit: the first match makes a track of limit 0
\* stable, as it does a track of limit 1
FirstMatchLimit(tr) == IF tr.persistenceLimit = 0 THEN 1 ELSE tr.persistenceLimit

\* the three methods return the published tracks matched max(persistence_limit, 1)
\* times or more: C7_StableOnly for every track of a positive limit
StableFromFirstMatch ==
    [][ReadsDetections =>
          query'.res.err = "" /\ query'.res.dets = MatchedAtLeast(FirstMatchLimit)]_vars

\* a call has read a list that hides a track of limit 2 matched once next to a shown
\* track of limit 2 matched twice or more
HiddenNextToShown ==
    /\ query.pc = "returned"
    /\ query.res.dets = getStableDetections(currDetections)
    /\ \E k \in 1..Len(currDetections) :
          /\ Matched(currDetections[k]) = 1
          /\ currDetections[k].persistenceLimit = 2
          /\ currDetections[k].Det \notin Range(query.res.dets)
    /\ \E k \in 1..Len(currDetections) :
          /\ Matched(currDetections[k]) >= 2
          /\ currDetections[k].persistenceLimit = 2
          /\ currDetections[k].Det \in Range(query.res.dets)

\* the configuration a live Reconfigure is given next to the detection queries: it
\* leaves min_track_persistence out
LiveConfigs ==
    {[BaseConfig EXCEPT !.BufferSize = 2, !.TriggerCoolDown = <<2>>, !.MaxFrequency = 10]}

\* what the detection queries are asked for: the detections only
DetectionsOnly ==
    [ReturnImage |-> FALSE, ReturnDetections |-> TRUE, ReturnClassifications |-> FALSE]

InitDetections == InitWith({"rich"}, {1, 2}, BufferConfigs, {2})

NextDetections ==
    \/ \E frame0, frame1 \in TimedFrames : NewTrackerStart(frame0, frame1)
    \/ passes < MaxCaptureTicks /\ TickBegin
    \/ FrameArrives
    \/ \E frame \in TimedFrames : TickStart(frame)
    \/ TickFilter
    \/ TickNewTracks
    \/ TickMatch
    \/ TickRename
    \/ TriggerCancel
    \/ TriggerStore
    \/ TriggerSpawn
    \/ PublishLog
    \/ PublishLists(1)
    \/ PublishImage
    \/ TimeStatsRead
    \/ PublishStats
    \/ WaitForPeriod(1)
    \/ \E cfg \in LiveConfigs : Reconfigure(cfg)
    \/ ReconfigureTimeStats
    \/ ReconfigureFrequency
    \/ ReconfigurePersistence
    \/ ReconfigureBuffer
    \/ ReconfigureCoolDown
    \/ ReconfigureMinConfidence
    \/ ReconfigureChosenLabels
    \/ ReconfigureCamName
    \/ ReconfigureCam
    \/ ReconfigureDetector
    \/ Detections(FALSE)
    \/ DetectionsFromCamera(CamName, FALSE)
    \/ DetectionsSelect
    \/ DetectionsRead
    \/ CaptureAllFromCamera(CamName, DetectionsOnly, FALSE)
    \/ CaptureDetections
    \/ QueryReturn

SpecDetections == InitDetections /\ [][NextDetections]_vars

\* trigger() was entered in the pass the producer is in or has just completed
TriggerInvoked == prodPc \in {"trigger", "store", "spawn"} \/ triggerGen > pass.gen0

\* C8: a pass (the initialization pass included) invokes trigger() exactly when its
\* newly stable list (tracker) or its fresh list (object_tracker) is not empty
C8_TriggerIffNew ==
    pass.kind \in {"init", "run"} =>
        (TriggerInvoked <=> IF variant = "rich" THEN pass.newlyStable # <<>>
                            ELSE pass.fresh # <<>>)

\* the time of the most recent call of trigger()
LastTrigger == trigTimes[Len(trigTimes)]

\* C9: when every earlier trigger is less than the cooldown before the latest one,
\* newInstance is true from the latest Store(true) until the cooldown of the latest
\* trigger has elapsed: no cooldown goroutine of an earlier trigger resets it
C9_NoEarlyReset ==
    (/\ Len(trigTimes) >= 2
     /\ triggerGen = Len(trigTimes)
     /\ prodPc # "store"
     /\ LastTrigger < trigTimes[1] + coolDown
     /\ now < LastTrigger + coolDown)
        => newInstance

\* no cooldown goroutine has a step left to take, and trigger() is not in progress
CoolDownsSettled ==
    /\ prodPc \notin {"trigger", "store", "spawn"}
    /\ \A id \in DOMAIN tasks : tasks[id].pc = "done"

\* C10: newInstance is true only within the cooldown of the most recent trigger, also
\* after Close; stated of the states in which no cooldown goroutine is still to run,
\* so that a goroutine being late is not counted
C10_OnlyWithinCooldown ==
    newInstance /\ CoolDownsSettled => trigTimes # <<>> /\ now < LastTrigger + coolDown

\* the values of the n argument of the classification queries
ClassificationCounts == {0, 1, 5}

ClassificationQueries ==
    UNION {Classifications(n, d) \cup ClassificationsFromCamera(CamName, n, d) :
              n \in ClassificationCounts, d \in {FALSE}}

\* C11: Classifications and ClassificationsFromCamera with the configured camera name
\* return the single classification (1.0, "new-object-detected") when newInstance is
\* true and the empty list when it is false, for every n
C11_ClassificationsFollowFlag ==
    \A r \in ClassificationQueries :
        /\ r.err = ""
        /\ newInstance => r.cls = <<[score |-> 100, label |-> "new-object-detected"]>>
        /\ ~newInstance => r.cls = <<>>

\* a cooldown has elapsed after a trigger: the flag is false again and the queries
\* return the empty list
C11_Witness ==
    /\ trigTimes # <<>>
    /\ ~newInstance
    /\ \E id \in DOMAIN tasks : tasks[id].pc = "done" /\ now >= tasks[id].deadline
    /\ \A r \in ClassificationQueries : r.cls = <<>>

\* the tracks the engine publishes or buffers
HeldTracks == Range(lastDetections) \cup Range(Concat(BufferSlots))

\* C12: from one step to the next, the persistence count of a published or buffered
\* TrackId does not decrease and does not exceed its limit, and a stable TrackId does
\* not become unstable
C12_PersistenceMonotone ==
    [][\A old \in HeldTracks : \A new \in HeldTracks' :
          getTrackingLabel(old) = getTrackingLabel(new) =>
              /\ new.persistenceCount >= old.persistenceCount
              /\ new.persistenceCount <= new.persistenceLimit
              /\ old.stable => new.stable]_vars

\* the new tracks of the pass in progress, the published and the buffered tracks, and
\* the histories of the tracks map
EngineTracks ==
    Range(pass.new) \cup HeldTracks \cup UNION {Range(tracks[id]) : id \in DOMAIN tracks}

\* C13: every track the engine holds is stable exactly when its persistence count has
\* reached its limit, for every configured min_track_persistence, 0 included
C13_StableIffLimit ==
    \A tr \in EngineTracks : tr.stable <=> tr.persistenceCount >= tr.persistenceLimit

\* the results the two query methods that read the state once may return for a caller
\* whose context is done (ctxDone) or not, under the given camera name
DirectQueries(cameraName, ctxDone) ==
    Classifications(1, ctxDone) \cup ClassificationsFromCamera(cameraName, 1, ctxDone)

CancellationErrors == {"engine context done", "caller context done"}

NoData(r) == r.img = 0 /\ r.dets = <<>> /\ r.cls = <<>>

\* a call of CaptureAllFromCamera is in progress or has just ended
InCapture == query.pc \in CapturePositions /\ query.method = "CaptureAllFromCamera"

\* a call of Detections or DetectionsFromCamera is in progress or has just ended
InDetections ==
    /\ query.pc \in {"select", "read", "returned"}
    /\ query.method \in {"Detections", "DetectionsFromCamera"}

\* C14: when cancelContext is done or the context of the caller is done, every query
\* method fails with a cancellation error and returns no data; for Detections,
\* DetectionsFromCamera and CaptureAllFromCamera the contexts are those found at the
\* select of the call
C14_CancelledQueriesFail ==
    /\ \A ctxDone \in BOOLEAN :
          engineCancelled \/ ctxDone =>
              \A r \in DirectQueries(CamName, ctxDone) :
                 r.err \in CancellationErrors /\ NoData(r)
    /\ (InCapture \/ InDetections) /\ query.selected
          /\ (query.cancelled \/ query.ctxDone) =>
             /\ query.pc = "returned"
             /\ query.res.err \in CancellationErrors
             /\ NoData(query.res)

\* the call of CaptureAllFromCamera in progress was made under another camera name
OtherNameCapture == InCapture /\ query.name = OtherCamName

\* C15: under another camera name DetectionsFromCamera and ClassificationsFromCamera
\* fail without data in every state, and so does CaptureAllFromCamera when the image is
\* requested; when it is not, and nothing was cancelled when the call was entered,
\* CaptureAllFromCamera does not fail, returns no image, and returns the stable
\* detections and the classifications it finds at its two reads when they are requested
\* and none otherwise
C15_CameraNameCheck ==
    /\ [](\A ctxDone \in BOOLEAN :
             \A r \in ClassificationsFromCamera(OtherCamName, 1, ctxDone) :
                r.err # "" /\ NoData(r))
    /\ [](InDetections /\ query.method = "DetectionsFromCamera"
                /\ query.name = OtherCamName =>
             query.pc = "returned" /\ query.res.err # "" /\ NoData(query.res))
    /\ [](OtherNameCapture =>
             /\ query.pc \notin {"image", "panicked"}
             /\ query.pc = "returned" =>
                   IF query.opt.ReturnImage THEN query.res.err # "" /\ NoData(query.res)
                   ELSE ~query.cancelled /\ ~query.ctxDone =>
                           /\ query.res.err = ""
                           /\ query.res.img = 0
                           /\ ~query.opt.ReturnDetections => query.res.dets = <<>>
                           /\ ~query.opt.ReturnClassifications => query.res.cls = <<>>)
    /\ [][OtherNameCapture /\ ~query.opt.ReturnImage /\ ~query.cancelled /\ ~query.ctxDone =>
             /\ (query.pc = "detections" /\ query'.pc # "detections") =>
                   query'.res.dets = getStableDetections(currDetections)
             /\ (query.pc = "classifications" /\ query'.pc # "classifications") =>
                   query'.res.cls = NewInstanceClassifications]_vars

\* under another camera name a capture without the image has returned stable detections
\* and the classification
C15_Witness ==
    /\ OtherNameCapture
    /\ query.pc = "returned"
    /\ ~query.opt.ReturnImage
    /\ query.res.err = ""
    /\ query.res.dets # <<>>
    /\ query.res.cls # <<>>

\* the tracks a reader holding the read lock finds behind a slice
TracksAt(sl) == Deref(mem.heap, Elems(mem.arrays, sl))

\* C16: in every state, also in the middle of a pass, currDetections reads as the list
\* of the latest publication, whole; and every list published so far still reads as it
\* did when it was published: no later step has changed the list or a track of it
C16_PublishedImmutable ==
    mem.published # <<>> =>
        /\ TracksAt(mem.curr) = mem.published[Len(mem.published)].tracks
        /\ \A k \in 1..Len(mem.published) :
              TracksAt(mem.published[k].slice) = mem.published[k].tracks

\* later passes have written into the spare capacity of the array of a published list
\* (pool construction), have published the clone of a track of an earlier list, and
\* have removed an entry from a buffer slot in place
C16_Witness ==
    /\ \E k \in 1..Len(mem.published) :
          LET sl == mem.published[k].slice
          IN /\ sl.len < Len(mem.arrays[sl.arr])
             /\ mem.arrays[sl.arr][sl.len + 1] # 0
    /\ \E k \in 1..Len(mem.published) :
          \E a \in Range(Elems(mem.arrays, mem.published[k].slice)) :
             \E b \in Range(Elems(mem.arrays, mem.curr)) :
                a # b /\ getTrackingLabel(mem.heap[a]) = getTrackingLabel(mem.heap[b])
    /\ \E k \in 1..Len(mem.buf) :
          /\ mem.buf[k].arr # 0
          /\ mem.buf[k].len < Len(mem.arrays[mem.buf[k].arr])

\* the producer loop and every cooldown goroutine have terminated
WorkersDone == prodPc = "exited" /\ \A id \in DOMAIN tasks : tasks[id].pc = "done"

\* what the producer and the cooldown goroutines write
writtenByWorkers ==
    <<currDetections, lastDetections, lostDetectionsBuffer, allFreshObjects, newInstance>>

\* C17: once Close has returned the producer and every cooldown goroutine have
\* terminated, so that a further Close does not block, and no step writes
\* currDetections, lastDetections, the lost buffer, allFreshObjects or newInstance
C17_CloseIsFinal ==
    /\ [](closePc \in {"done", "again"} => WorkersDone /\ ENABLED CloseAgain)
    /\ [][(closePc \in {"done", "again"}) => UNCHANGED writtenByWorkers]_vars

\* passes were published and cooldown goroutines were started; Close returned once they
\* and the producer had ended, and a second Close returned
C17_Witness ==
    /\ closePc = "again"
    /\ DOMAIN tasks # {}
    /\ timeStats >= 1
    /\ currDetections # <<>>

\* the TrackIds that have reached stable since construction: a stable track stays in
\* the tracks map, with its history, for good
EverStable == {id \in DOMAIN tracks : \E i \in 1..Len(tracks[id]) : tracks[id][i].stable}

\* the entries of the log for the TrackId id
LogEntries(id) ==
    {k \in 1..Len(allFreshObjects) : CountLabel(allFreshObjects[k].FullLabel) = id}

\* C18: allFreshObjects only grows at its end, and after every pass (the initialization
\* pass included) it holds exactly one entry for every TrackId that has reached stable
\* and no other entry
C18_LogComplete ==
    /\ [][/\ Len(allFreshObjects') >= Len(allFreshObjects)
          /\ SubSeq(allFreshObjects', 1, Len(allFreshObjects)) = allFreshObjects]_vars
    /\ [](AfterPass =>
             /\ \A id \in EverStable : Cardinality(LogEntries(id)) = 1
             /\ \A k \in 1..Len(allFreshObjects) :
                   CountLabel(allFreshObjects[k].FullLabel) \in EverStable)

\* C19: after every pass every published track has a label class_N_... whose index N
\* is strictly smaller than classCounter[class]
C19_IndexBelowCounter ==
    AfterPass =>
        \A k \in 1..Len(lastDetections) :
            LET label == lastDetections[k].Det.label
            IN /\ Len(label) >= 2
               /\ IsNumber(label[2])
               /\ HasKey(classCounter, label[1])
               /\ Atoi(label[2]) < classCounter[label[1]]

\* the tracks RenameFirstTime has returned in the latest pass, in the order of the
\* calls: the renamed first frame of newTracker, then the fresh tracks
MintedInPass == IF pass.kind = "init" THEN pass.pool \o pass.fresh ELSE pass.fresh

\* the indices of the tracks of class c among trs, in order
IndicesOf(trs, c) ==
    LET of == SelectSeq(trs, LAMBDA tr : tr.Det.label[1] = c)
    IN [i \in 1..Len(of) |-> of[i].Det.label[2]]

\* C20: RenameFirstTime numbers the tracks of a class 0, 1, 2, ... in the order it
\* returns them, continuing in every pass where the pass before stopped, and no class
\* counter ever decreases or goes away: no TrackId is returned twice, also after the
\* tracks entry of an earlier identity was deleted
C20_FreshIdsNeverReused ==
    /\ [](pass.kind \in {"init", "run"} =>
             \A c \in {"cat", "fish"} :
                IndicesOf(MintedInPass, c) =
                    [i \in 1..(Minted(classCounter, c) - Minted(pass.counter0, c)) |->
                        Itoa(Minted(pass.counter0, c) + i - 1)])
    /\ [][\A c \in DOMAIN classCounter :
             HasKey(classCounter', c) /\ classCounter'[c] >= classCounter[c]]_vars

\* fish_0 was lost before it was stable and deleted from the tracks map; a later fish
\* is fish_1
C20_Witness ==
    /\ pass.kind = "run"
    /\ ~HasKey(tracks, <<"fish", "0">>)
    /\ \E k \in 1..Len(pass.fresh) : getTrackingLabel(pass.fresh[k]) = <<"fish", "1">>

-----------------------------------------------------------------------------
(* C30: a failed iteration changes nothing *)

\* what the producer writes in a pass
writtenByProducer ==
    <<lastDetections, currDetections, currImg, lostDetectionsBuffer, tracks, classCounter,
      allFreshObjects, newInstance, timeStats, triggerGen>>

\* the positions of run in an iteration that has no detections yet: the head of the
\* loop, the call of stream.Next and the call of the detector
BeforeDetections == {"idle", "next", "detect"}

\* C30: a run-loop iteration in which the frame fetch fails, the frame is nil or the
\* detector fails leaves last_detections, current_detections, current_image, the lost
\* buffer, tracks, the class counters, the log and new_instance as they were: no step
\* of the iteration, from the head of the loop to the failure, writes any of them.  The
\* failing step takes the producer back to the head of the loop, where the next
\* iteration can start.
C30_FailedTickChangesNothing ==
    /\ [][(prodPc \in BeforeDetections /\ prodPc' \in BeforeDetections) =>
             /\ writtenByProducer' = writtenByProducer
             /\ phase' = phase]_vars
    /\ [][(pass'.fault # pass.fault /\ pass'.fault # "none") =>
             /\ prodPc \in BeforeDetections
             /\ prodPc' = "idle"]_vars
    /\ []((pass.fault # "none" /\ prodPc = "idle" /\ passes < MaxTicks) =>
             ENABLED TickBegin)

\* a pass failed after passes that published tracks, filled the buffer and triggered
C30_Witness ==
    /\ pass.fault = "detect"
    /\ prodPc = "idle"
    /\ lastDetections # <<>>
    /\ \E i \in 1..Len(lostDetectionsBuffer.detections) :
          lostDetectionsBuffer.detections[i] # <<>>
    /\ allFreshObjects # <<>>
    /\ newInstance
    /\ passes < MaxTicks

-----------------------------------------------------------------------------
(* C22: returned detections against the detector output of the frame *)

\* the detector outputs of the frame of the last pass, after filtering
FrameDetections == {pass.new[j].Det : j \in 1..Len(pass.new)}

\* C22: after a pass, every detection the tracker returns (the stable tracks of the
\* published list) has the bounding box and the confidence score of one detector
\* output of the frame of that pass; only the label differs.
C22_BoxAndScoreOfFrame ==
    AfterPass =>
        \A i \in 1..Len(getStableDetections(currDetections)) :
            \E d \in FrameDetections :
               /\ d.box = getStableDetections(currDetections)[i].box
               /\ d.score = getStableDetections(currDetections)[i].score

-----------------------------------------------------------------------------
(* C23: the lists published by the initialization pass *)

\* newTracker has returned and run has not started a pass yet
Constructed == AfterPass /\ passes = 0 /\ pass.kind = "init"

\* C23: after construction last_detections and current_detections hold one track for
\* every filtered detection of the second frame: the tracks matched to a first-frame
\* track followed by the unmatched ones under their fresh identities, which is what a
\* loop pass with the first-frame tracks as pool publishes.
C23_InitPublishesAll ==
    Constructed =>
        /\ lastDetections = pass.updated \o pass.newlyStable \o pass.fresh
        /\ currDetections = lastDetections
        /\ Len(lastDetections) = Len(pass.new)

-----------------------------------------------------------------------------
(* C24: assignments of cost zero *)

\* the rows of lastDetections that the solver assigned to a column at cost zero
ZeroCostRows ==
    {i \in 1..pass.nLast :
        pass.matches[i] # -1 /\ RatIsZero(pass.mtx[i][pass.matches[i] + 1])}

\* the newest slot of the lost buffer
NewestSlot == lostDetectionsBuffer.detections[Len(lostDetectionsBuffer.detections)]

\* C24: after a loop pass, a row of last_detections that the solver assigned at cost 0
\* has been handled like an unmatched row (a stable track is in the newest buffer slot,
\* a track that is not stable has no entry in tracks) and its column like an unmatched
\* column (the detection is among the fresh tracks).
C24_ZeroCostIsUnmatched ==
    (AfterPass /\ pass.kind = "run") =>
        \A i \in ZeroCostRows :
            /\ isStable(pass.pool[i]) => pass.pool[i] \in Range(NewestSlot)
            /\ ~isStable(pass.pool[i]) => ~HasKey(tracks, getTrackingLabel(pass.pool[i]))
            /\ \E k \in 1..Len(pass.fresh) :
                  pass.fresh[k].Det.box = pass.new[pass.matches[i] + 1].Det.box

-----------------------------------------------------------------------------
(* C26: unmatched rows of last_detections *)

\* the rows of the previous last_detections that the solver left without a column
UnmatchedRows == {i \in 1..pass.nLast : pass.matches[i] = -1}

\* the track of row i is handled as lost: kept in the newest buffer slot when stable,
\* otherwise gone from the live list, the buffer and tracks
HandledAsLost(i) ==
    /\ isStable(pass.pool[i]) => pass.pool[i] \in Range(NewestSlot)
    /\ ~isStable(pass.pool[i]) =>
          /\ getTrackingLabel(pass.pool[i]) \notin Range(TrackIds(lastDetections))
          /\ getTrackingLabel(pass.pool[i]) \notin Range(BufferIds)
          /\ ~HasKey(tracks, getTrackingLabel(pass.pool[i]))

\* C26: after every pass, the initialization pass included, each track of the previous
\* last_detections that no new detection matched is in the newest buffer slot if it is
\* stable, and otherwise is in neither last_detections nor the buffer and has no entry
\* in tracks.
C26_UnmatchedRows == AfterPass => \A i \in UnmatchedRows : HandledAsLost(i)

\* the same for the passes of the run loop alone
UnmatchedRowsOfRun == (AfterPass /\ pass.kind = "run") => \A i \in UnmatchedRows : HandledAsLost(i)

-----------------------------------------------------------------------------
(* C27: how long a lost track stays in the buffer *)

\* the tracks of the buffer slots given, at distance d from the newest slot
AtDistance(slots, d) == IF d < Len(slots) THEN Range(slots[Len(slots) - d]) ELSE {}

\* the tracks that were in the buffer before the last pass and were not lost again in it
KeptEntries(d) ==
    {x \in AtDistance(bufPrev, d) : getTrackingLabel(x) \notin Range(TrackIds(bufArg))}

\* C27: with buffer capacity C, every pass appends one slot: the tracks lost in the pass
\* are in the newest slot; a track that was d appends old before the pass and was not
\* lost again was part of the matching pool of the pass, and after the pass it is d + 1
\* appends old if d + 1 < C and in no slot otherwise.  A track lost in pass t is thus in
\* the pool of the passes t+1 .. t+C and in no slot after the C-th append that follows.
C27_BufferedForCapacityTicks ==
    AfterPass =>
        /\ Range(bufArg) \subseteq AtDistance(BufferSlots, 0)
        /\ \A d \in 0..(lostDetectionsBuffer.size - 1) : \A x \in KeptEntries(d) :
              /\ x \in {pass.pool[i] : i \in (pass.nLast + 1)..Len(pass.pool)}
              /\ IF d + 1 < lostDetectionsBuffer.size
                 THEN x \in AtDistance(BufferSlots, d + 1)
                 ELSE x \notin Range(Concat(BufferSlots))

\* with capacity 3 a pass evicted a lost track after it had been in the pool of the last
\* 3 passes, and revived it from that entry, while a younger one moved on by one slot
C27_Witness ==
    /\ AfterPass
    /\ lostDetectionsBuffer.size = 3
    /\ KeptEntries(lostDetectionsBuffer.size - 1) # {}
    /\ KeptEntries(0) # {}
    /\ \E i \in (pass.nLast + 1)..Len(pass.pool) :
          /\ pass.pool[i] \in KeptEntries(lostDetectionsBuffer.size - 1)
          /\ pass.matches[i] # -1
          /\ ~RatIsZero(pass.mtx[i][pass.matches[i] + 1])

-----------------------------------------------------------------------------
(* C28: the order of the fresh detections *)

\* the columns (from 0) that the first loop of RenameFromMatches left in notUsed
FreshColumns ==
    {j - 1 : j \in 1..Len(pass.new)} \
        {pass.matches[i] : i \in {r \in 1..Len(pass.matches) :
                                     MatchTaken(pass.matches, pass.mtx, pass.pool, pass.new, r)}}

\* TrackId and bounding box of the tracks of a list, in order
IdsAndBoxes(trs) ==
    [k \in 1..Len(trs) |-> [id |-> getTrackingLabel(trs[k]), box |-> trs[k].Det.box]]

\* the fresh tracks of the last pass had notUsed been iterated in the order given
FreshUnder(order) ==
    RenameFresh(RenameStart([classCounter |-> pass.counter0, tracks |-> EmptyMap], pass.new),
                pass.new, order, 0).fresh

\* C28: the rename step is a function of the engine state, the matches, the cost
\* matrix and the new detections: whatever run the pass is taken from, the fresh tracks
\* come in the same order with the same TrackIds, so every iteration order of notUsed
\* yields the fresh list that the pass published.
C28_RenameDeterministic ==
    (AfterPass /\ pass.kind = "run") =>
        \A order \in Orders(FreshColumns) :
            IdsAndBoxes(FreshUnder(order)) = IdsAndBoxes(pass.fresh)

-----------------------------------------------------------------------------
(* C29: the three lists of RenameFromMatches *)

\* the three results of RenameFromMatches in the last pass, one after the other
RenameOutputs == pass.updated \o pass.newlyStable \o pass.fresh

\* the one-to-one correspondences of the new detections and the output tracks
Placements == Injections(1..Len(pass.new), 1..Len(RenameOutputs))

\* C29: for every assignment of the solver, which uses no column twice (accepted,
\* zero-cost, guarded and unmatched rows alike), RenameFromMatches puts every
\* new detection in exactly one of updated, newly stable and fresh: the lists share no
\* TrackId, together they are as long as the list of new detections, and the output
\* tracks correspond one to one to the new detections whose bounding boxes they carry.
C29_ThreeDisjointLists ==
    (AfterPass /\ pass.kind = "run") =>
        /\ Len(RenameOutputs) = Len(pass.new)
        /\ Range(TrackIds(pass.updated)) \cap Range(TrackIds(pass.newlyStable)) = {}
        /\ Range(TrackIds(pass.updated)) \cap Range(TrackIds(pass.fresh)) = {}
        /\ Range(TrackIds(pass.newlyStable)) \cap Range(TrackIds(pass.fresh)) = {}
        /\ \E f \in Placements :
              \A j \in 1..Len(pass.new) : RenameOutputs[f[j]].Det.box = pass.new[j].Det.box

\* two new detections, one taken as a match of a buffered or live track and one fresh,
\* from an assignment that also held a rejected match
C29_Witness ==
    /\ AfterPass /\ pass.kind = "run"
    /\ Len(pass.new) = 2
    /\ Len(pass.updated) + Len(pass.newlyStable) = 1
    /\ Len(pass.fresh) = 1
    /\ \E i \in 1..Len(pass.matches) :
          /\ pass.matches[i] # -1
          /\ ~MatchTaken(pass.matches, pass.mtx, pass.pool, pass.new, i)

-----------------------------------------------------------------------------
(* C21: what an accepted match changes *)

\* the rows of the pool whose match RenameFromMatches accepted in the last pass
TakenRows ==
    {i \in 1..Len(pass.matches) :
        MatchTaken(pass.matches, pass.mtx, pass.pool, pass.new, i)}

\* tr is an update of the pool track old by the new track nt: only the bounding box, the
\* persistence state and the trailing classification differ
UpdateOf(tr, old, nt) ==
    /\ tr.Det.box = nt.Det.box
    /\ Stamp(tr) = Stamp(old)
    /\ tr.Det.label \in {old.Det.label, Stamp(old) \o <<nt.detClassification>>}
    /\ tr.Det.score = old.Det.score
    /\ tr.persistenceLimit = old.persistenceLimit

\* C21: for every accepted match the updated track has the class_N prefix and the birth
\* timestamp of the matched pool track; only its bounding box, its persistence state
\* and the trailing classification component of its label may differ from that track.
C21_UpdateKeepsIdentity ==
    (AfterPass /\ pass.kind = "run") =>
        /\ Len(pass.updated) + Len(pass.newlyStable) = Cardinality(TakenRows)
        /\ \A i \in TakenRows :
              \E k \in 1..Len(pass.updated \o pass.newlyStable) :
                  UpdateOf((pass.updated \o pass.newlyStable)[k], pass.pool[i],
                           pass.new[pass.matches[i] + 1])

\* an accepted match moved the box of a track, made it stable and rewrote the trailing
\* classification of its label
C21_Witness ==
    /\ AfterPass /\ pass.kind = "run"
    /\ \E i \in TakenRows : \E k \in 1..Len(pass.newlyStable) :
          /\ UpdateOf(pass.newlyStable[k], pass.pool[i], pass.new[pass.matches[i] + 1])
          /\ pass.newlyStable[k].Det.box # pass.pool[i].Det.box
          /\ pass.newlyStable[k].Det.label # pass.pool[i].Det.label
          /\ pass.newlyStable[k].detClassification = "full"

-----------------------------------------------------------------------------
(* C25: a stable partial track matched to a full detection *)

\* the rows of lastDetections whose match was skipped by the classification guard
GuardedRows ==
    {i \in 1..pass.nLast :
        /\ pass.matches[i] # -1
        /\ ~RatIsZero(pass.mtx[i][pass.matches[i] + 1])
        /\ PartialToFull(pass.pool[i], pass.new[pass.matches[i] + 1])}

\* C25: when a stable track of last_detections classified "partial" is matched to a new
\* detection classified "full", the new detection is published under a fresh TrackId
\* and the old track is in the newest slot of the lost buffer at the end of the pass.
C25_PartialToFullGoesToLost ==
    (AfterPass /\ pass.kind = "run") =>
        \A i \in GuardedRows :
            /\ \E k \in 1..Len(pass.fresh) :
                  /\ pass.fresh[k].Det.box = pass.new[pass.matches[i] + 1].Det.box
                  /\ getTrackingLabel(pass.fresh[k]) # getTrackingLabel(pass.pool[i])
            /\ pass.pool[i] \in Range(NewestSlot)

\* the new detection of a guarded row does get a fresh identity
GuardedColumnIsFresh ==
    (AfterPass /\ pass.kind = "run") =>
        \A i \in GuardedRows :
            \E k \in 1..Len(pass.fresh) :
                /\ pass.fresh[k].Det.box = pass.new[pass.matches[i] + 1].Det.box
                /\ getTrackingLabel(pass.fresh[k]) # getTrackingLabel(pass.pool[i])

\* the first underscore-separated component of a label, lower-cased
BaseOf(d) == ToLower(d.label[1])

\* C36: FilterDetections returns, in input order, exactly the detections whose score is
\* at least min_confidence and, unless chosen_labels is empty, whose lower-cased first
\* label component is a key of chosen_labels with a value strictly below the score.
C36_FilterDetections ==
    pass.kind = "filtered" =>
        pass.published =
            SelectSeq(pass.new,
                      LAMBDA d : /\ d.score >= minConfidence
                                 /\ \/ DOMAIN chosenLabels = {}
                                    \/ /\ BaseOf(d) \in DOMAIN chosenLabels
                                       /\ d.score > chosenLabels[BaseOf(d)])

\* a call that dropped a detection scoring exactly its class threshold and kept one
\* scoring exactly min_confidence
C36_Witness ==
    /\ pass.kind = "filtered"
    /\ Len(pass.new) = 2
    /\ Len(pass.published) = 1
    /\ pass.published[1].score = minConfidence
    /\ \E i \in 1..2 :
          /\ BaseOf(pass.new[i]) \in DOMAIN chosenLabels
          /\ pass.new[i].score = chosenLabels[BaseOf(pass.new[i])]
          /\ pass.new[i].score >= minConfidence

\* area(a) + area(b) - area(a /\ b)
AreaOfUnion(a, b) ==
    Dx(a) * Dy(a) + Dx(b) * Dy(b) - Dx(Intersect(a, b)) * Dy(Intersect(a, b))

\* C37: IOU(a, b) is 0 when the intersection is empty and otherwise the area of the
\* intersection divided by area(a) + area(b) - area(intersection).
C37_IOUOverAreaOfUnion ==
    pass.kind = "iou" =>
        \E a \in {pass.pool[1]}, b \in {pass.pool[2]}, r \in {pass.mtx[1][1]} :
            IF Empty(Intersect(a, b))
            THEN r.n = 0
            ELSE r.n * AreaOfUnion(a, b) = Dx(Intersect(a, b)) * Dy(Intersect(a, b)) * r.d

\* C38: PredictNextFrame(prev, curr) has the width and height of curr and the centre
\* 2*centre(curr) - centre(prev) (stated on the doubled centres, which are integers).
C38_PredictKeepsSizeAndCentre ==
    pass.kind = "predicted" =>
        \E prev \in {pass.pool[1]}, curr \in {pass.pool[2]}, r \in {pass.new[1]} :
            /\ Dx(r) = Dx(curr)
            /\ Dy(r) = Dy(curr)
            /\ r.x0 + r.x1 = 2 * (curr.x0 + curr.x1) - (prev.x0 + prev.x1)
            /\ r.y0 + r.y1 = 2 * (curr.y0 + curr.y1) - (prev.y0 + prev.y1)

\* the box a pool entry is compared by: predicted from the last two entries of its
\* history when there are two, its own box otherwise
RefBoxOf(trks, d) ==
    IF getTrackingLabel(d) \in DOMAIN trks /\ Len(trks[getTrackingLabel(d)]) >= 2
    THEN PredictNextFrame(trks[getTrackingLabel(d)][Len(trks[getTrackingLabel(d)]) - 1].Det.box,
                          trks[getTrackingLabel(d)][Len(trks[getTrackingLabel(d)])].Det.box)
    ELSE d.Det.box

RatEq(a, b) == a.n * b.d = b.n * a.d

\* the matrix m has one row per pool entry and one column per new detection, holds
\* -IOU(reference box, new box) and only values of [-1, 0]
IsMatchingMatrix(m, trks, pool, new) ==
    /\ Len(m) = Len(pool)
    /\ \A i \in 1..Len(pool) :
          /\ Len(m[i]) = Len(new)
          /\ \A j \in 1..Len(new) :
                /\ RatEq(m[i][j], RatNeg(IOU(RefBoxOf(trks, pool[i]), new[j].Det.box)))
                /\ RatLeq(Rat(-1, 1), m[i][j])
                /\ RatLeq(m[i][j], Rat(0, 1))

\* C39: the matrix of a loop pass has |pool| rows and |new| columns, its entry (i, j) is
\* -IOU(ref_i, box(new[j])) with ref_i predicted from the last two entries of the history
\* of pool[i] in tracks when there are two and the own box of pool[i] otherwise, and
\* every entry lies in [-1, 0].
C39_MatchingMatrix ==
    [][/\ (prodPc = "pool" /\ prodPc' = "append") =>
              IsMatchingMatrix(pass'.mtx, tracks, pass'.pool, pass'.new)
       /\ (phase = "new" /\ phase' = "init") =>
              IsMatchingMatrix(pass'.mtx, EmptyMap, pass'.pool, pass'.new)]_vars

\* a pass with an entry that is not -IOU of the own box of its row: the prediction was
\* used and changed the cost
C39_Witness ==
    /\ pass.kind = "run"
    /\ \E i \in 1..Len(pass.pool), j \in 1..Len(pass.new) :
          ~RatEq(pass.mtx[i][j], RatNeg(IOU(pass.pool[i].Det.box, pass.new[j].Det.box)))

\* C34: CaptureAllFromCamera with the image requested and the configured camera name
\* reads the image without failing: it takes the frame stored by the most recent
\* completed loop pass, and the empty image (0) when no loop pass has stored a frame yet.
C34_CaptureAllImage ==
    [][(query.pc = "image" /\ query'.pc # "image") =>
          /\ query'.pc # "panicked"
          /\ query'.res.err = ""
          /\ query'.res.img = currImg]_vars

\* the configuration-derived state of the tracker: the camera and the vision service,
\* the camera name, the frequency, the persistence limit, the chosen labels, the
\* thresholds, the cooldown and the capacity of the lost buffer
configState ==
    <<cam, detector, camName, frequency, minTrackPersistence, chosenLabels, minConfidence,
      coolDown, lostDetectionsBuffer.size>>

\* C40: once the producer is running and until close(), no step changes the
\* configuration-derived state of the engine.
C40_ConfigurationImmutable ==
    [][(phase = "running" /\ ~engineCancelled) => configState' = configState]_vars

\* C31: after a loop pass in which the assignment solver reported a failure, every pool
\* row has been treated as unmatched (no track was updated, every track of the previous
\* last_detections was handled as lost) and every filtered new detection is a fresh
\* track, and the producer is ready for the next pass.
C31_SolverFailureFallback ==
    (pass.fault = "solver" /\ AfterPass) =>
        /\ pass.kind = "run"
        /\ pass.updated = <<>>
        /\ Len(pass.fresh) = Len(pass.new)
        /\ \A i \in 1..pass.nLast : HandledAsLost(i)

\* every cooldown goroutine that was started has returned
CoolDownsExited == \A id \in DOMAIN tasks : tasks[id].pc = "done"

publishedState == <<lastDetections, currDetections, currImg, allFreshObjects, timeStats>>

\* C32: after Close is called the producer eventually exits, every cooldown goroutine
\* exits and Close returns; only the pass that was under way when Close was called is
\* still published: once run is back at the top of its loop nothing is published any more.
C32_CloseTerminates ==
    /\ (closePc = "wait") ~> (closePc = "done" /\ prodPc = "exited" /\ CoolDownsExited)
    /\ [][(engineCancelled /\ prodPc \in {"idle", "exited"}) =>
             /\ publishedState' = publishedState
             /\ prodPc' \in {"idle", "exited"}]_vars

\* Close has returned after cutting short a cooldown whose timer had not fired, the
\* pass under way having been published
C32_Witness ==
    /\ closePc = "done"
    /\ prodPc = "exited"
    /\ timeStats >= 1
    /\ newInstance
    /\ \E id \in DOMAIN tasks : tasks[id].pc = "done" /\ tasks[id].deadline > now

\* C33: DoCommand with the benchmark key does not fail, whatever the number of completed
\* loop passes (0 included), and the record it returns has NumberOfRuns equal to the
\* number of completed passes it counted.
C33_BenchmarkForEveryN ==
    query.benchmark =>
        /\ query.pc # "panicked"
        /\ (query.pc = "done") =>
              /\ "benchmark" \in DOMAIN query.out
              /\ query.out["benchmark"].NumberOfRuns = query.n
              /\ query.n \in {timeStats - k : k \in 0..MaxTicks} \cup {timeStats + 1}

\* a DoCommand call is about to read t.timeStats
ReadsTimeStats == query.pc \in {"len", "range"}

\* C35: no query operation accesses the state owned by the producer; in particular no
\* state has a query reading time_stats while the producer appends to it.
C35_ProducerOnlyState ==
    /\ ~ReadsTimeStats
    /\ ~(ReadsTimeStats /\ AppendsTimeStats)

====
